---- MODULE Spec2Model ----
(***************************************************************************)
(* The glTF feature-metadata table engine: GltfFeatureMetadataCache, the   *)
(* accessor (binary) property and the array property, as state machines.   *)
(*                                                                         *)
(* JavaScript values are records with a "type" field, so that any two of   *)
(* them can be compared.  Objects that JavaScript shares by reference      *)
(* (JSON arrays, array buffers) live in heaps and are named by an index.   *)
(* Promise reactions run as jobs: a settled fetch queues one job per       *)
(* registered caller, in registration order, and the queue is drained      *)
(* before any other call of the application runs (run to completion).      *)
(***************************************************************************)
EXTENDS Integers, Sequences, FiniteSets, TLC

VARIABLES
  debug,         \* TRUE: the build keeps the //>>includeStart('debug') blocks
  jsonCache,     \* GltfFeatureMetadataCache._jsonCache
  bufferCache,   \* GltfFeatureMetadataCache._bufferCache
  promiseCache,  \* GltfFeatureMetadataCache._promiseCache
  promises,      \* the promises returned by fetchJson / fetchArrayBuffer
  calls,         \* the calls of getExternalValues / getExternalBuffer and what they returned
  jobs,          \* the promise reactions that are ready to run
  arrays,        \* heap of JSON arrays
  buffers,       \* heap of array buffers (raw components)
  props,         \* the constructed properties (written: what setValue last stored per feature)
  table,         \* the GltfFeatureTable, once constructed
  held,          \* the JSON arrays the callers of the properties hold
  last           \* the operation of the last step and what it returned

vars == <<debug, jsonCache, bufferCache, promiseCache, promises, calls, jobs,
          arrays, buffers, props, table, held, last>>

-----------------------------------------------------------------------------
(* Bounds and input domains *)

MaxCalls == 3
MaxProps == 2
MaxWrites == 2
FeatureCount == 2

Uris == {"u1", "u2"}
Keys == {"k1", "k2"}
BaseUri == "base"
ResolvedUris == Uris \cup {BaseUri}
FeatureIds == 0 .. (FeatureCount - 1)

-----------------------------------------------------------------------------
(* JavaScript values *)

Undefined == [type |-> "undefined"]
defined(v) == v.type # "undefined"
Str(s) == [type |-> "string", s |-> s]
Num(n, d) == [type |-> "number", num |-> n, den |-> d]
Int2Num(n) == Num(n, 1)
ArrayRef(r) == [type |-> "array", ref |-> r]
Doc(m) == [type |-> "object", map |-> m]
EmptyDoc == Doc([k \in Keys |-> Undefined])
ArrayBuffer(b) == [type |-> "arraybuffer", ref |-> b]
PromiseRef(p) == [type |-> "promise", id |-> p]
FetchError == [type |-> "error"]

\* new Uint8Array(x): a view over the bytes of an ArrayBuffer; anything that is
\* not a buffer (a number, or an object without a length) gives no bytes.
\* ref 0 is a zero-length array.
Uint8Array(x) ==
  IF x.type = "arraybuffer" THEN [type |-> "uint8array", ref |-> x.ref]
  ELSE [type |-> "uint8array", ref |-> 0]

\* v[key] for a property key
Member(v, key) ==
  IF v.type = "object" /\ key.type = "string" /\ key.s \in Keys THEN v.map[key.s] ELSE Undefined

\* Resource.getDerivedResource({url: uri}).url : without a url the derived
\* resource is the cache's own resource
ResolveUri(uri) == IF defined(uri) THEN uri.s ELSE BaseUri

\* Check.typeOf.string
CheckTypeOfString(v) == v.type = "string"

NoOp == [op |-> "none"]

-----------------------------------------------------------------------------
(* What the fetches can deliver *)

\* the JSON documents a server can answer with: per key the array of values
DocTemplates == {"d1", "d2"}
TemplateHas(t, k) == t = "d1" \/ k = "k1"
TemplateArray(t, k) ==
  [i \in 1 .. FeatureCount |->
     Int2Num(i + (IF t = "d1" THEN 0 ELSE 20) + (IF k = "k1" THEN 0 ELSE 10))]

\* the bytes a server can answer with
BufferTemplate ==
  [i \in 1 .. (2 * FeatureCount) |-> IF i = 1 THEN Int2Num(255) ELSE Int2Num(i - 2)]

-----------------------------------------------------------------------------
(* GltfFeatureMetadataCache *)

NewPromise(ext, kind) ==
  [uri |-> ext, kind |-> kind, state |-> "pending", value |-> Undefined, tmpl |-> "none"]

NewCall(op, ext, key, owner, p, state, value) ==
  [op |-> op, uri |-> ext, key |-> key, owner |-> owner,
   promise |-> p, state |-> state, value |-> value]

\* a cache that never looks at its resolved entries
MutCacheHit(cached) == FALSE

\* line 56 / line 107: the URI has a resolved entry
CacheHit(cached) == defined(cached)

\* a cache that does not look at the in-flight mapping
MutStartsFetch(ext) == TRUE

\* line 60 / line 111: no fetch of the URI is in flight
StartsFetch(ext) == ~defined(promiseCache[ext])

\* getExternalValues / getExternalBuffer after the argument checks: the cache
\* hit returns the value itself, otherwise the caller is registered on the
\* in-flight promise of the URI, which is created when there is none
Request(op, kind, ext, key, owner, cached, hit) ==
  IF CacheHit(cached)
    THEN /\ calls' = Append(calls, NewCall(op, ext, key, owner, 0, "sync", hit))
         /\ UNCHANGED <<promises, promiseCache>>
    ELSE IF StartsFetch(ext)
      THEN /\ promises' = Append(promises, NewPromise(ext, kind))
           /\ promiseCache' = [promiseCache EXCEPT ![ext] = PromiseRef(Len(promises) + 1)]
           /\ calls' = Append(calls, NewCall(op, ext, key, owner,
                                             Len(promises) + 1, "pending", Undefined))
      ELSE /\ calls' = Append(calls, NewCall(op, ext, key, owner,
                                             promiseCache[ext].id, "pending", Undefined))
           /\ UNCHANGED <<promises, promiseCache>>

\* options.uri / options.key: a string passed in place of the options object
\* has neither
Options(uri, key) == [type |-> "options", uri |-> uri, key |-> key]
OptionsUri(options) == IF options.type = "options" THEN options.uri ELSE Undefined
OptionsKey(options) == IF options.type = "options" THEN options.key ELSE Undefined

\* lines 42-45 and 94-96: the argument checks of the debug build
ValuesCheckThrows(options) ==
  debug /\ (~CheckTypeOfString(OptionsUri(options)) \/ ~CheckTypeOfString(OptionsKey(options)))
BufferCheckThrows(options) == debug /\ ~CheckTypeOfString(OptionsUri(options))

\* lines 47-79, the argument checks passed
getExternalValues(options, owner) ==
  LET ext == ResolveUri(OptionsUri(options))
      key == OptionsKey(options)
  IN /\ Request("values", "json", ext, key, owner,
                jsonCache[ext], Member(jsonCache[ext], key))
     /\ UNCHANGED <<jsonCache, bufferCache>>

\* lines 98-130, the argument check passed
getExternalBuffer(options, owner) ==
  LET ext == ResolveUri(OptionsUri(options))
  IN /\ Request("buffer", "bytes", ext, Undefined, owner,
                bufferCache[ext], bufferCache[ext])
     /\ UNCHANGED <<jsonCache, bufferCache>>

\* what a call that returned a promise was registered on, and a call that hit
\* the cache
Registered(c) == calls[c].promise # 0
ReturnedPromise == calls'[Len(calls')].promise # 0

-----------------------------------------------------------------------------
(* The application calls the cache directly *)

CallGetExternalValues(u, k) ==
  /\ jobs = <<>>
  /\ Len(calls) < MaxCalls
  /\ ~ValuesCheckThrows(Options(Str(u), Str(k)))
  /\ getExternalValues(Options(Str(u), Str(k)), 0)
  /\ last' = NoOp
  /\ UNCHANGED <<held, table, debug, jobs, arrays, buffers, props>>

CallGetExternalBuffer(u) ==
  /\ jobs = <<>>
  /\ Len(calls) < MaxCalls
  /\ ~BufferCheckThrows(Options(Str(u), Undefined))
  /\ getExternalBuffer(Options(Str(u), Undefined), 0)
  /\ last' = NoOp
  /\ UNCHANGED <<held, table, debug, jobs, arrays, buffers, props>>

-----------------------------------------------------------------------------
(* The transport settles a fetch *)

Waiters(p) == SelectSeq([i \in 1 .. Len(calls) |-> i],
                        LAMBDA c : calls[c].promise = p /\ calls[c].state = "pending")

\* a promise that runs only the first of its reactions
MutCacheJobs(p) == IF Waiters(p) = <<>> THEN <<>> ELSE <<[type |-> "cache", call |-> Waiters(p)[1]]>>

\* the reactions of a settled promise, in the order they were registered
CacheJobs(p) == [i \in 1 .. Len(Waiters(p)) |-> [type |-> "cache", call |-> Waiters(p)[i]]]

\* fetchJson resolves with the parsed document: its arrays are new objects
FetchJsonSucceeds(p, t) ==
  /\ jobs = <<>>
  /\ p \in 1 .. Len(promises)
  /\ promises[p].state = "pending"
  /\ promises[p].kind = "json"
  /\ LET n == Len(arrays)
         doc == Doc([k \in Keys |->
                       IF ~TemplateHas(t, k) THEN Undefined
                       ELSE ArrayRef(n + (IF k = "k1" THEN 1 ELSE 2))])
     IN /\ arrays' = arrays \o
                       (IF TemplateHas(t, "k2")
                          THEN <<TemplateArray(t, "k1"), TemplateArray(t, "k2")>>
                          ELSE <<TemplateArray(t, "k1")>>)
        /\ promises' = [promises EXCEPT ![p].state = "fulfilled",
                                        ![p].value = doc, ![p].tmpl = t]
  /\ jobs' = CacheJobs(p)
  /\ last' = NoOp
  /\ UNCHANGED <<held, table, debug, jsonCache, bufferCache, promiseCache, calls, buffers, props>>

\* fetchArrayBuffer resolves with a new ArrayBuffer
FetchArrayBufferSucceeds(p) ==
  /\ jobs = <<>>
  /\ p \in 1 .. Len(promises)
  /\ promises[p].state = "pending"
  /\ promises[p].kind = "bytes"
  /\ buffers' = Append(buffers, BufferTemplate)
  /\ promises' = [promises EXCEPT ![p].state = "fulfilled",
                                  ![p].value = ArrayBuffer(Len(buffers) + 1)]
  /\ jobs' = CacheJobs(p)
  /\ last' = NoOp
  /\ UNCHANGED <<held, table, debug, jsonCache, bufferCache, promiseCache, calls, arrays, props>>

FetchFails(p) ==
  /\ jobs = <<>>
  /\ p \in 1 .. Len(promises)
  /\ promises[p].state = "pending"
  /\ promises' = [promises EXCEPT ![p].state = "rejected", ![p].value = FetchError]
  /\ jobs' = CacheJobs(p)
  /\ last' = NoOp
  /\ UNCHANGED <<held, table, debug, jsonCache, bufferCache, promiseCache, calls, arrays, buffers, props>>

-----------------------------------------------------------------------------
(* The reactions registered by the cache: .then(...).otherwise(...) *)

HeadCall == jobs[1].call
HeadIs(type, op, state) ==
  /\ jobs # <<>>
  /\ jobs[1].type = type
  /\ calls[HeadCall].op = op
  /\ promises[calls[HeadCall].promise].state = state

\* the caller's own continuation runs after the cache's reaction
Downstream(c) == IF calls[c].owner # 0 THEN <<[type |-> "prop", call |-> c]>> ELSE <<>>

\* lines 66 / 73 / 117 / 124: only the first reaction of an in-flight URI stores
StoresEntry(ext) == defined(promiseCache[ext])

\* every waiter is given the value of the same key
MutReturnedValue(json, key) == Member(json, Str("k1"))

\* line 70
ReturnedValue(json, key) == Member(json, key)

\* a failure that leaves no entry behind
MutFailedDocument == Undefined

\* line 74
FailedDocument == EmptyDoc

\* a failure that leaves no entry behind
MutFailedBuffer == Undefined

\* line 125
FailedBuffer == Uint8Array(Int2Num(0))

Settle(c, value) ==
  /\ calls' = [calls EXCEPT ![c].state = "fulfilled", ![c].value = value]
  /\ jobs' = Tail(jobs) \o Downstream(c)
  /\ last' = NoOp
  /\ UNCHANGED <<held, table, debug, promises, arrays, buffers, props>>

\* lines 65-71
ValuesThen ==
  /\ HeadIs("cache", "values", "fulfilled")
  /\ LET c == HeadCall
         ext == calls[c].uri
         json == promises[calls[c].promise].value
     IN /\ IF StoresEntry(ext)
             THEN /\ jsonCache' = [jsonCache EXCEPT ![ext] = json]
                  /\ promiseCache' = [promiseCache EXCEPT ![ext] = Undefined]
             ELSE UNCHANGED <<jsonCache, promiseCache>>
        /\ Settle(c, ReturnedValue(json, calls[c].key))
        /\ UNCHANGED bufferCache

\* lines 72-78
ValuesOtherwise ==
  /\ HeadIs("cache", "values", "rejected")
  /\ LET c == HeadCall
         ext == calls[c].uri
     IN /\ IF StoresEntry(ext)
             THEN /\ jsonCache' = [jsonCache EXCEPT ![ext] = FailedDocument]
                  /\ promiseCache' = [promiseCache EXCEPT ![ext] = Undefined]
             ELSE UNCHANGED <<jsonCache, promiseCache>>
        /\ Settle(c, Undefined)
        /\ UNCHANGED bufferCache

\* lines 116-122
BufferThen ==
  /\ HeadIs("cache", "buffer", "fulfilled")
  /\ LET c == HeadCall
         ext == calls[c].uri
         arrayBuffer == promises[calls[c].promise].value
     IN /\ IF StoresEntry(ext)
             THEN /\ bufferCache' = [bufferCache EXCEPT ![ext] = Uint8Array(arrayBuffer)]
                  /\ promiseCache' = [promiseCache EXCEPT ![ext] = Undefined]
             ELSE UNCHANGED <<bufferCache, promiseCache>>
        /\ Settle(c, bufferCache'[ext])
        /\ UNCHANGED jsonCache

\* lines 123-129
BufferOtherwise ==
  /\ HeadIs("cache", "buffer", "rejected")
  /\ LET c == HeadCall
         ext == calls[c].uri
     IN /\ IF StoresEntry(ext)
             THEN /\ bufferCache' = [bufferCache EXCEPT ![ext] = FailedBuffer]
                  /\ promiseCache' = [promiseCache EXCEPT ![ext] = Undefined]
             ELSE UNCHANGED <<bufferCache, promiseCache>>
        /\ Settle(c, bufferCache'[ext])
        /\ UNCHANGED jsonCache

-----------------------------------------------------------------------------
(* The cache alone, called by the application *)

Constructed ==
  /\ jsonCache = [u \in ResolvedUris |-> Undefined]
  /\ bufferCache = [u \in ResolvedUris |-> Undefined]
  /\ promiseCache = [u \in ResolvedUris |-> Undefined]
  /\ promises = <<>>
  /\ calls = <<>>
  /\ jobs = <<>>
  /\ arrays = <<>>
  /\ buffers = <<BufferTemplate>>
  /\ props = <<>>
  /\ table = Undefined
  /\ held = {}
  /\ last = NoOp

Init == debug \in BOOLEAN /\ Constructed

CacheNext ==
  \/ \E u \in Uris, k \in Keys : CallGetExternalValues(u, k)
  \/ \E u \in Uris : CallGetExternalBuffer(u)
  \/ \E p \in 1 .. Len(promises), t \in DocTemplates : FetchJsonSucceeds(p, t)
  \/ \E p \in 1 .. Len(promises) : FetchArrayBufferSucceeds(p)
  \/ \E p \in 1 .. Len(promises) : FetchFails(p)
  \/ ValuesThen
  \/ ValuesOtherwise
  \/ BufferThen
  \/ BufferOtherwise

SpecCache == Init /\ [][CacheNext]_vars

\* a settled fetch runs the reactions registered on it one after the other (the
\* job queue of the promises), and the transport settles the fetches it was
\* given: by one of the two answers or by a failure
Settles ==
  \E p \in 1 .. Len(promises) :
    \/ \E t \in DocTemplates : FetchJsonSucceeds(p, t)
    \/ FetchArrayBufferSucceeds(p)
    \/ FetchFails(p)

Reacts == ValuesThen \/ ValuesOtherwise \/ BufferThen \/ BufferOtherwise

\* the requests for one URI, of both kinds and for both keys
LiveNext ==
  \/ \E k \in Keys : CallGetExternalValues("u1", k)
  \/ CallGetExternalBuffer("u1")
  \/ \E p \in 1 .. Len(promises), t \in DocTemplates : FetchJsonSucceeds(p, t)
  \/ \E p \in 1 .. Len(promises) : FetchArrayBufferSucceeds(p)
  \/ \E p \in 1 .. Len(promises) : FetchFails(p)
  \/ ValuesThen
  \/ ValuesOtherwise
  \/ BufferThen
  \/ BufferOtherwise

SpecCacheLive == Init /\ [][LiveNext]_vars /\ WF_vars(Reacts) /\ WF_vars(Settles)

-----------------------------------------------------------------------------
(* GltfFeatureTableArrayProperty *)

\* the values setPropertyValue can be given
WriteValues == {Int2Num(7)}

\* property.array of the glTF: inline values, or a reference to an external file
InlineArray ==
  [type |-> "object", values |-> [i \in 1 .. FeatureCount |-> Int2Num(40 + i)],
   external |-> Undefined]
ExternalArray(u, k) ==
  [type |-> "object", values |-> Undefined, external |-> Options(Str(u), Str(k))]

ArrayProperty(values, external) ==
  [kind |-> "array", values |-> values, fromCache |-> FALSE,
   external |-> external, written |-> [i \in FeatureIds |-> Undefined]]

Threw(op, error) == [op |-> op, threw |-> error]
Returned(op) == [op |-> op, threw |-> "none"]

\* the property under construction chains its continuation on what the cache
\* returns, when that is a promise
Chained(cache, options) ==
  IF CacheHit(cache[ResolveUri(OptionsUri(options))]) THEN 0 ELSE Len(props) + 1

\* lines 393-428.  The promise the cache returns is asked for .then; on a cache
\* hit the cache returns the cached value itself (line 57), which has no .then,
\* and the constructor ends with a TypeError.
NewArrayProperty(array) ==
  /\ jobs = <<>>
  /\ Len(props) < MaxProps
  /\ IF defined(array.external)
       THEN /\ Len(calls) < MaxCalls
            /\ ~ValuesCheckThrows(array.external)
            /\ getExternalValues(array.external, Chained(jsonCache, array.external))
            /\ IF ReturnedPromise
                 THEN /\ props' = Append(props, ArrayProperty(Undefined, TRUE))
                      /\ last' = Returned("new ArrayProperty")
                 ELSE /\ props' = props
                      /\ last' = Threw("new ArrayProperty", "TypeError")
            /\ UNCHANGED arrays
       ELSE \* clone(array.values, true): the property holds a copy of the glTF's array
            /\ arrays' = arrays \o <<array.values, array.values>>
            /\ props' = Append(props, ArrayProperty(ArrayRef(Len(arrays) + 2), FALSE))
            /\ last' = Returned("new ArrayProperty")
            /\ UNCHANGED <<jsonCache, bufferCache, promiseCache, promises, calls>>
  /\ UNCHANGED <<held, table, debug, jobs, buffers>>

HeadOwner == calls[HeadCall].owner

\* a continuation that puts a new property in the place of the one that waited
MutArrayContinuation ==
  /\ jobs # <<>>
  /\ jobs[1].type = "prop"
  /\ props[HeadOwner].kind = "array"
  /\ props' = [props EXCEPT ![HeadOwner] =
                 [@ EXCEPT !.kind = "binary", !.values = calls[HeadCall].value]]
  /\ jobs' = Tail(jobs)
  /\ last' = NoOp
  /\ UNCHANGED <<held, table, debug, jsonCache, bufferCache, promiseCache, promises, calls, arrays, buffers>>

\* lines 412-415
ArrayContinuation ==
  /\ jobs # <<>>
  /\ jobs[1].type = "prop"
  /\ props[HeadOwner].kind = "array"
  /\ props' = [props EXCEPT ![HeadOwner].values = calls[HeadCall].value,
                            ![HeadOwner].fromCache = TRUE]
  /\ jobs' = Tail(jobs)
  /\ last' = NoOp
  /\ UNCHANGED <<held, table, debug, jsonCache, bufferCache, promiseCache, promises, calls, arrays, buffers>>

\* clone(value, true): a number is its own copy; an array is copied into a new
\* array of the heap, its elements copied the same way first
RECURSIVE clone(_, _), CloneElements(_, _, _, _)
CloneElements(heap, elements, k, copied) ==
  IF k > Len(elements) THEN [heap |-> heap, elements |-> copied]
  ELSE LET c == clone(heap, elements[k])
       IN CloneElements(c.heap, elements, k + 1, Append(copied, c.value))

clone(heap, value) ==
  IF value.type # "array" THEN [heap |-> heap, value |-> value]
  ELSE LET c == CloneElements(heap, heap[value.ref], 1, <<>>)
       IN [heap |-> Append(c.heap, c.elements), value |-> ArrayRef(Len(c.heap) + 1)]

\* line 419: clone(array.values, true)
ClonedValues(heap, values) == clone(heap, values)

\* line 483: clone(values[featureId], true)
ClonedElement(heap, element) == clone(heap, element)

\* a store of the value it is handed
MutClonedValue(heap, value) == [heap |-> heap, value |-> value]

\* line 509: clone(value, true)
ClonedValue(heap, value) == clone(heap, value)

\* values[featureId]
Element(values, featureId) ==
  IF values.type = "array" /\ featureId + 1 \in 1 .. Len(arrays[values.ref])
    THEN arrays[values.ref][featureId + 1]
    ELSE Undefined

\* getValue reads the same slot for every feature
MutArrayGetValue(property, featureId) == Element(property.values, 0)

\* lines 476-484
ArrayGetValue(property, featureId) ==
  IF ~defined(property.values) THEN Undefined ELSE Element(property.values, featureId)

\* a write that goes to the array it was given
MutClonesOnDemand(fromCache) == FALSE

\* line 502
ClonesOnDemand(fromCache) == fromCache

\* the features that hold a value stored by setValue
WrittenSlots ==
  {x \in (1 .. Len(props)) \X FeatureIds : defined(props[x[1]].written[x[2]])}

\* a store that leaves the value in the first element too
MutJsArrayStore(values, featureId, value) ==
  IF values = <<>> THEN <<value>>
  ELSE [[j \in 1 .. Len(values) |-> IF j = featureId + 1 THEN value ELSE values[j]]
          EXCEPT ![1] = value]

\* values[featureId] = value: an element is replaced, the index one past the
\* end appends; a negative index names a property of the array object that is
\* not an element
JsArrayStore(values, featureId, value) ==
  IF featureId + 1 \in 1 .. Len(values) THEN [values EXCEPT ![featureId + 1] = value]
  ELSE IF featureId = Len(values) THEN Append(values, value)
  ELSE values

\* what was last stored for the features of the table
Remember(written, featureId, value) ==
  IF featureId \in FeatureIds THEN [written EXCEPT ![featureId] = value] ELSE written

\* lines 494-510
ArraySetValue(o, featureId, value) ==
  /\ jobs = <<>>
  /\ o \in 1 .. Len(props)
  /\ props[o].kind = "array"
  /\ Cardinality(WrittenSlots) < MaxWrites
  /\ IF ~defined(props[o].values)
       THEN UNCHANGED <<props, arrays>>
       ELSE LET values == IF ClonesOnDemand(props[o].fromCache)
                            THEN clone(arrays, props[o].values)
                            ELSE [heap |-> arrays, value |-> props[o].values]
                stored == ClonedValue(values.heap, value)
            IN /\ arrays' = [stored.heap EXCEPT ![values.value.ref] =
                                                  JsArrayStore(@, featureId, stored.value)]
               /\ props' = [props EXCEPT ![o].values = values.value,
                                         ![o].fromCache = FALSE,
                                         ![o].written = Remember(@, featureId, value)]
  /\ last' = Returned("setValue")
  /\ UNCHANGED <<held, table, debug, jsonCache, bufferCache, promiseCache, promises, calls, jobs, buffers>>

\* the external file the array properties of the table refer to
ArrayUri == "u1"

ArrayNext ==
  \/ NewArrayProperty(InlineArray)
  \/ \E k \in Keys : NewArrayProperty(ExternalArray(ArrayUri, k))
  \/ \E p \in 1 .. Len(promises), t \in DocTemplates : FetchJsonSucceeds(p, t)
  \/ \E p \in 1 .. Len(promises) : FetchFails(p)
  \/ ValuesThen
  \/ ValuesOtherwise
  \/ ArrayContinuation
  \/ \E o \in 1 .. Len(props), i \in FeatureIds, v \in WriteValues : ArraySetValue(o, i, v)

\* the array property does nothing that depends on the build
InitArray == debug = TRUE /\ Constructed

SpecArray == InitArray /\ [][ArrayNext]_vars

-----------------------------------------------------------------------------
(* The array property over an array of arrays, and the callers that keep what
   they hand to it and what it returns *)

\* the arrays that are made after the construction, and the arrays the
\* callers assign to
MaxCopies == 2
MaxStores == 2

\* the glTF's property.array.values: one array of one number for each feature,
\* the elements first, then the array of them
SchemaHeap ==
  [k \in 1 .. (FeatureCount + 1) |->
     IF k <= FeatureCount THEN <<Int2Num(40 + k)>>
     ELSE [i \in 1 .. FeatureCount |-> ArrayRef(i)]]
SchemaValues == ArrayRef(FeatureCount + 1)

\* the heap has room for one more array
HeapHasRoom == Len(arrays) < 2 * (FeatureCount + 1) + MaxCopies

\* lines 407-428 for an inline array
NewInlineProperty(values) ==
  /\ jobs = <<>>
  /\ Len(props) < 1
  /\ arrays' = ClonedValues(arrays, values).heap
  /\ props' = Append(props, ArrayProperty(ClonedValues(arrays, values).value, FALSE))
  /\ last' = Returned("new ArrayProperty")
  /\ UNCHANGED <<held, table, debug, jsonCache, bufferCache, promiseCache, promises, calls,
                 jobs, buffers>>

\* lines 476-484: the caller holds what is returned
CallArrayGetValue(o, featureId) ==
  /\ jobs = <<>>
  /\ o \in 1 .. Len(props)
  /\ props[o].kind = "array"
  /\ HeapHasRoom
  /\ IF ~defined(props[o].values)
       THEN UNCHANGED <<arrays, held>>
       ELSE LET returned == ClonedElement(arrays, Element(props[o].values, featureId))
            IN /\ arrays' = returned.heap
               /\ held' = IF returned.value.type = "array"
                            THEN held \cup {returned.value.ref} ELSE held
  /\ last' = Returned("getValue")
  /\ UNCHANGED <<table, debug, jsonCache, bufferCache, promiseCache, promises, calls, jobs,
                 buffers, props>>

\* the caller assigns an element of an array it holds
CallerStores(ref, index, value) ==
  /\ ref \in held
  /\ Cardinality({h \in held : \E j \in 1 .. Len(arrays[h]) : arrays[h][j] = value})
       < MaxStores
  /\ index \in 1 .. Len(arrays[ref])
  /\ arrays[ref][index] # value
  /\ arrays' = [arrays EXCEPT ![ref][index] = value]
  /\ last' = [op |-> "caller stores"]
  /\ UNCHANGED <<held, table, debug, jsonCache, bufferCache, promiseCache, promises, calls,
                 jobs, buffers, props>>

\* what the callers store, and the array they hand to setValue: the first
\* array of a number of the glTF
CallerNumbers == {Int2Num(99)}
HeldArrays == {ArrayRef(1)}

CloneNext ==
  \/ NewInlineProperty(SchemaValues)
  \/ \E o \in 1 .. Len(props), i \in FeatureIds : CallArrayGetValue(o, i)
  \/ \E o \in 1 .. Len(props), i \in FeatureIds, v \in HeldArrays :
       HeapHasRoom /\ ArraySetValue(o, i, v)
  \/ \E r \in held, v \in CallerNumbers : CallerStores(r, 1, v)

\* the glTF is in the heap, and the caller holds it
InitClone ==
  /\ debug = TRUE
  /\ jsonCache = [u \in ResolvedUris |-> Undefined]
  /\ bufferCache = [u \in ResolvedUris |-> Undefined]
  /\ promiseCache = [u \in ResolvedUris |-> Undefined]
  /\ promises = <<>> /\ calls = <<>> /\ jobs = <<>>
  /\ buffers = <<BufferTemplate>>
  /\ props = <<>>
  /\ table = Undefined
  /\ last = NoOp
  /\ arrays = SchemaHeap
  /\ held = 1 .. (FeatureCount + 1)

SpecClone == InitClone /\ [][CloneNext]_vars

-----------------------------------------------------------------------------
(* Numbers: num / den with den >= 0; 1/0 is Infinity, -1/0 -Infinity, 0/0 NaN *)

RECURSIVE Gcd(_, _)
Gcd(a, b) == IF b = 0 THEN a ELSE Gcd(b, a % b)
Abs(n) == IF n < 0 THEN -n ELSE n
Sign(n) == IF n < 0 THEN -1 ELSE IF n > 0 THEN 1 ELSE 0

Fraction(n, d) ==
  IF d = 0 THEN Num(Sign(n), 0)
  ELSE LET g == Gcd(Abs(n), Abs(d)) IN Num(Sign(d) * (n \div g), Abs(d) \div g)

NaN == Num(0, 0)
IsNaN(x) == x.num = 0 /\ x.den = 0

\* x / y; undefined operands give NaN
Divide(x, y) ==
  IF x.type # "number" \/ y.type # "number" \/ IsNaN(x) \/ IsNaN(y) THEN NaN
  ELSE Fraction(x.num * y.den, x.den * y.num)

Less(x, y) ==
  IF x.den = 0 /\ y.den = 0 THEN x.num < y.num ELSE x.num * y.den < y.num * x.den

\* Math.max
MathMax(x, y) == IF IsNaN(x) \/ IsNaN(y) THEN NaN ELSE IF Less(x, y) THEN y ELSE x

RECURSIVE Pow2(_)
Pow2(n) == IF n = 0 THEN 1 ELSE 2 * Pow2(n - 1)

-----------------------------------------------------------------------------
(* GltfFeatureTableAccessorProperty *)

\* ComponentDatatype.getSizeInBytes
getSizeInBytes(componentType) ==
  CASE componentType \in {"BYTE", "UNSIGNED_BYTE"} -> 1
    [] componentType \in {"SHORT", "UNSIGNED_SHORT"} -> 2
    [] componentType \in {"INT", "UNSIGNED_INT", "FLOAT"} -> 4
    [] OTHER -> 8

\* getBinaryAccessor(accessor).componentsPerAttribute
componentsPerAttribute(type) ==
  CASE type = "SCALAR" -> 1
    [] type = "VEC2" -> 2
    [] type = "VEC3" -> 3
    [] type \in {"VEC4", "MAT2"} -> 4
    [] type = "MAT3" -> 9
    [] OTHER -> 16

\* lines 179-185
isSignedComponentType(componentType) == componentType \in {"BYTE", "SHORT", "INT"}

\* lines 187-193
isUnsignedComponentType(componentType) ==
  componentType \in {"UNSIGNED_BYTE", "UNSIGNED_SHORT", "UNSIGNED_INT"}

\* a flag taken as it comes
MutIsNormalized(normalized, componentType) == normalized

\* lines 195-201
isNormalized(normalized, componentType) ==
  normalized /\ (isSignedComponentType(componentType) \/ isUnsignedComponentType(componentType))

\* lines 203-212: the exponent is the size in bytes
getMaximumValue(componentType) ==
  LET bitDepth == getSizeInBytes(componentType) IN
    IF isSignedComponentType(componentType) THEN Int2Num(Pow2(bitDepth - 1) - 1)
    ELSE IF isUnsignedComponentType(componentType) THEN Int2Num(Pow2(bitDepth) - 1)
    ELSE Num(1, 0)

\* lines 214-223
getLowestValue(componentType) ==
  LET bitDepth == getSizeInBytes(componentType) IN
    IF isSignedComponentType(componentType) THEN Int2Num(-Pow2(bitDepth - 1))
    ELSE IF isUnsignedComponentType(componentType) THEN Int2Num(0)
    ELSE Num(-1, 0)

\* the glTF a property is constructed from: one accessor, and the buffer its
\* buffer view names.  storage is "none" (the accessor has no buffer view),
\* "resident" (the buffer's bytes are in extras._pipeline.source) or
\* "external" (the buffer has a uri only).  Buffer 1 of the heap is the
\* resident buffer of the glTF.
Accessor(componentType, type, normalized, storage) ==
  [componentType |-> componentType, type |-> type, count |-> FeatureCount,
   normalized |-> normalized, byteOffset |-> 0,
   bufferView |-> IF storage = "none" THEN Undefined ELSE Int2Num(0)]

Gltf(accessor, storage) ==
  [accessor |-> accessor,
   buffer |-> [type |-> "object", uri |-> Str("u2"),
               source |-> IF storage = "resident"
                            THEN [type |-> "uint8array", ref |-> 1] ELSE Undefined]]

\* lines 125-136
getBuffer(gltf, accessor) ==
  IF ~defined(accessor.bufferView) THEN Undefined ELSE gltf.buffer

\* lines 138-155
getBufferSource(gltf, accessor) ==
  LET buffer == getBuffer(gltf, accessor) IN
    IF ~defined(buffer) THEN Undefined ELSE buffer.source

\* binaryAccessor.createArrayBufferView: a typed view of count elements over
\* the bytes of the source
createArrayBufferView(accessor, bufferSource, byteOffset, count) ==
  [type |-> "typedarray", componentType |-> accessor.componentType,
   ref |-> bufferSource.ref, off |-> byteOffset,
   len |-> IF bufferSource.ref = 0 THEN 0
           ELSE componentsPerAttribute(accessor.type) * count]

\* lines 157-177
getTypedArrayForAccessor(gltf, accessor, bufferSource) ==
  IF ~defined(bufferSource) \/ ~defined(accessor.bufferView) THEN Undefined
  ELSE createArrayBufferView(accessor, bufferSource, accessor.byteOffset, accessor.count)

\* an integer brought into the range of an integer component type
Wrap(componentType, n) ==
  LET w == Pow2(8 * getSizeInBytes(componentType)) IN
    IF isSignedComponentType(componentType) /\ n % w >= w \div 2 THEN (n % w) - w ELSE n % w

\* the element type of a typed array decides how a stored number reads: the
\* slots of an integer array hold integers, read in the range of the type
ReadAs(componentType, raw) ==
  IF isUnsignedComponentType(componentType) \/ isSignedComponentType(componentType)
    THEN Int2Num(Wrap(componentType, raw.num))
    ELSE raw

\* what a typed array keeps of a number stored in it: an integer array drops
\* the fraction and wraps, and keeps 0 for NaN and the infinities; a float
\* array keeps the number
StoreAs(componentType, value) ==
  IF ~(isUnsignedComponentType(componentType) \/ isSignedComponentType(componentType))
    THEN (IF value.type = "number" THEN value ELSE NaN)
  ELSE IF value.type # "number" \/ value.den = 0 THEN Int2Num(0)
  ELSE Int2Num(Wrap(componentType, Sign(value.num) * (Abs(value.num) \div value.den)))

\* typedArray[index]: undefined outside the array
TypedArrayGet(typedArray, index) ==
  IF typedArray.ref # 0 /\ index >= 0 /\ index < typedArray.len
       /\ typedArray.off + index + 1 <= Len(buffers[typedArray.ref])
    THEN ReadAs(typedArray.componentType,
                buffers[typedArray.ref][typedArray.off + index + 1])
    ELSE Undefined

\* accessor.bufferViewId: the accessors of a glTF have a bufferView and no
\* bufferViewId
AccessorBufferViewId(accessor) == Undefined

\* lines 71-84
BinaryProperty(gltf, accessor, typedArray) ==
  [kind |-> "binary",
   componentType |-> accessor.componentType,
   componentCount |-> componentsPerAttribute(accessor.type),
   count |-> accessor.count,
   typedArray |-> typedArray,
   signed |-> isSignedComponentType(accessor.componentType),
   normalized |-> isNormalized(accessor.normalized, accessor.componentType),
   lowestValue |-> getLowestValue(accessor.componentType),
   maximumValue |-> getMaximumValue(accessor.componentType),
   initializedWithZeros |-> ~defined(AccessorBufferViewId(accessor)),
   gltf |-> gltf,
   written |-> [i \in FeatureIds |-> Undefined]]

\* lines 26-85.  The cache is given the uri itself where it expects an object
\* with a uri; what it returns is asked for .then, which a cached buffer
\* (line 108) does not have.
NewBinaryProperty(gltf) ==
  LET accessor == gltf.accessor
      buffer == getBuffer(gltf, accessor)
      typedArray == getTypedArrayForAccessor(gltf, accessor, getBufferSource(gltf, accessor))
  IN /\ jobs = <<>>
     /\ Len(props) < MaxProps
     /\ IF ~defined(typedArray) /\ defined(buffer)
          THEN IF BufferCheckThrows(buffer.uri)
            THEN /\ last' = Threw("new BinaryProperty", "DeveloperError")
                 /\ UNCHANGED <<props, jsonCache, bufferCache, promiseCache, promises, calls>>
            ELSE /\ Len(calls) < MaxCalls
                 /\ getExternalBuffer(buffer.uri, Chained(bufferCache, buffer.uri))
                 /\ IF ReturnedPromise
                      THEN /\ props' = Append(props, BinaryProperty(gltf, accessor, typedArray))
                           /\ last' = Returned("new BinaryProperty")
                      ELSE /\ props' = props
                           /\ last' = Threw("new BinaryProperty", "TypeError")
          ELSE /\ props' = Append(props, BinaryProperty(gltf, accessor, typedArray))
               /\ last' = Returned("new BinaryProperty")
               /\ UNCHANGED <<jsonCache, bufferCache, promiseCache, promises, calls>>
     /\ UNCHANGED <<held, table, debug, jobs, arrays, buffers>>

\* lines 58-65
BinaryContinuation ==
  /\ jobs # <<>>
  /\ jobs[1].type = "prop"
  /\ props[HeadOwner].kind = "binary"
  /\ props' = [props EXCEPT ![HeadOwner].typedArray =
                 getTypedArrayForAccessor(props[HeadOwner].gltf, props[HeadOwner].gltf.accessor,
                                          calls[HeadCall].value)]
  /\ jobs' = Tail(jobs)
  /\ last' = NoOp
  /\ UNCHANGED <<held, table, debug, jsonCache, bufferCache, promiseCache, promises, calls, arrays, buffers>>

\* lines 225-235
decodeValue(property, value) ==
  IF ~property.normalized THEN value
  ELSE IF property.signed THEN MathMax(Divide(value, property.maximumValue), Int2Num(-1))
  ELSE Divide(value, property.maximumValue)

\* a vector or matrix value
Composite(comps) == [type |-> "composite", comps |-> comps]

\* a zero that is a number whatever the shape
MutZeroValue(componentCount) == Int2Num(0)

\* lines 277-280: 0.0, or classType.clone(classType.ZERO)
ZeroValue(componentCount) ==
  IF componentCount = 1 THEN Int2Num(0)
  ELSE Composite([i \in 1 .. componentCount |-> Int2Num(0)])

\* lines 264-303
BinaryGetValue(property, featureId) ==
  LET componentCount == property.componentCount
      typedArray == property.typedArray
      startingIndex == featureId * componentCount
  IN IF property.initializedWithZeros THEN ZeroValue(componentCount)
     ELSE IF ~defined(typedArray) THEN Undefined
     ELSE IF componentCount = 1
       THEN IF property.normalized
              THEN decodeValue(property, TypedArrayGet(typedArray, startingIndex))
              ELSE TypedArrayGet(typedArray, startingIndex)
     ELSE IF property.normalized
       THEN Composite([i \in 1 .. componentCount |->
                         decodeValue(property, TypedArrayGet(typedArray, startingIndex + i - 1))])
     ELSE Composite([i \in 1 .. componentCount |->
                       TypedArrayGet(typedArray, startingIndex + i - 1)])

\* the accessors of the tables that are constructed
ComponentKinds ==
  {<<"UNSIGNED_BYTE", TRUE>>, <<"UNSIGNED_BYTE", FALSE>>, <<"BYTE", TRUE>>, <<"FLOAT", TRUE>>}
Storages == {"none", "resident", "external"}
Gltfs ==
  {Gltf(Accessor(ck[1], type, ck[2], storage), storage) :
     ck \in ComponentKinds, type \in {"SCALAR", "VEC2"}, storage \in Storages}

BinaryNext ==
  \/ \E gltf \in Gltfs : NewBinaryProperty(gltf)
  \/ \E p \in 1 .. Len(promises) : FetchArrayBufferSucceeds(p)
  \/ \E p \in 1 .. Len(promises) : FetchFails(p)
  \/ BufferThen
  \/ BufferOtherwise
  \/ BinaryContinuation

SpecBinary == Init /\ [][BinaryNext]_vars

-----------------------------------------------------------------------------
(* Writes through an accessor property *)

\* x * y
Times(x, y) ==
  IF x.type # "number" \/ y.type # "number" \/ IsNaN(x) \/ IsNaN(y) THEN NaN
  ELSE Fraction(x.num * y.num, x.den * y.den)

\* Math.round: the nearest integer, halves upwards
MathRound(x) ==
  IF x.den = 0 THEN x ELSE Int2Num((2 * x.num + x.den) \div (2 * x.den))

\* lines 237-243
encodeValue(property, value) ==
  IF ~property.normalized THEN value
  ELSE MathRound(Times(value, property.maximumValue))

\* ComponentDatatype.createTypedArray(componentType, length): a typed array
\* over a buffer of its own, which is the next of the heap, filled with zeros
createTypedArray(componentType, length) ==
  [type |-> "typedarray", componentType |-> componentType,
   ref |-> Len(buffers) + 1, off |-> 0, len |-> length]

ZeroFilled(length) == [i \in 1 .. length |-> Int2Num(0)]

\* typedArray[index] = value on the heap; nothing outside the array
TypedArraySet(heap, typedArray, index, value) ==
  IF typedArray.ref # 0 /\ index >= 0 /\ index < typedArray.len
       /\ typedArray.off + index + 1 <= Len(heap[typedArray.ref])
    THEN [heap EXCEPT ![typedArray.ref][typedArray.off + index + 1] =
                        StoreAs(typedArray.componentType, value)]
    ELSE heap

\* heap[typedArray][index], read as typedArray[index] reads
HeapGet(heap, typedArray, index) ==
  IF typedArray.ref # 0 /\ index >= 0 /\ index < typedArray.len
       /\ typedArray.off + index + 1 <= Len(heap[typedArray.ref])
    THEN ReadAs(typedArray.componentType, heap[typedArray.ref][typedArray.off + index + 1])
    ELSE Undefined

\* lines 357-365: classType.pack stores the components, then each stored
\* component is read back, encoded and stored again
RECURSIVE PackAndEncode(_, _, _, _, _, _)
PackAndEncode(heap, property, typedArray, startingIndex, comps, i) ==
  IF i > Len(comps) THEN heap
  ELSE LET index == startingIndex + i - 1
           packed == TypedArraySet(heap, typedArray, index, comps[i])
           encoded == IF property.normalized
                        THEN TypedArraySet(packed, typedArray, index,
                               encodeValue(property, HeapGet(packed, typedArray, index)))
                        ELSE packed
       IN PackAndEncode(encoded, property, typedArray, startingIndex, comps, i + 1)

\* classType.pack reads the components of the value it is given; a value that
\* has none gives undefined
PackComponents(value, componentCount) ==
  [k \in 1 .. componentCount |->
     IF value.type = "composite" /\ k <= Len(value.comps) THEN value.comps[k] ELSE Undefined]

\* the values written: numbers, and vectors of them
WriteNumbers == {Int2Num(1), Num(1, 2)}
WriteVectors == {Composite(<<Int2Num(1), Num(1, 2)>>)}
ValuesOfShape(componentCount) == IF componentCount = 1 THEN WriteNumbers ELSE WriteVectors

\* lines 319-366
BinarySetValue(o, featureId, value) ==
  LET property == props[o]
      componentCount == property.componentCount
      startingIndex == featureId * componentCount
      allocates == property.initializedWithZeros
      typedArray == IF allocates
                      THEN createTypedArray(property.componentType,
                                            componentCount * property.count)
                      ELSE property.typedArray
      heap == IF allocates
                THEN Append(buffers, ZeroFilled(componentCount * property.count))
                ELSE buffers
  IN /\ jobs = <<>>
     /\ o \in 1 .. Len(props)
     /\ property.kind = "binary"
     /\ Cardinality(WrittenSlots) < MaxWrites
     /\ IF ~defined(typedArray)
          THEN UNCHANGED <<props, buffers>>
          ELSE /\ props' = [props EXCEPT ![o].typedArray = typedArray,
                                         ![o].initializedWithZeros = FALSE,
                                         ![o].written = Remember(@, featureId, value)]
               /\ buffers' =
                    IF componentCount = 1
                      THEN TypedArraySet(heap, typedArray, startingIndex,
                                         IF property.normalized
                                           THEN encodeValue(property, value) ELSE value)
                      ELSE PackAndEncode(heap, property, typedArray, startingIndex,
                                         PackComponents(value, componentCount), 1)
     /\ last' = Returned("setValue")
     /\ UNCHANGED <<held, table, debug, jsonCache, bufferCache, promiseCache, promises, calls, jobs, arrays>>

\* a call of getValue: lines 264-303 assign no field
CallBinaryGetValue(o, featureId) ==
  /\ jobs = <<>>
  /\ o \in 1 .. Len(props)
  /\ props[o].kind = "binary"
  /\ last' = Returned("getValue")
  /\ UNCHANGED <<held, table, debug, jsonCache, bufferCache, promiseCache, promises, calls, jobs,
                 arrays, buffers, props>>

\* the accessors of the tables that are written to: with a buffer view
WriteKinds == {<<"UNSIGNED_BYTE", TRUE>>, <<"BYTE", TRUE>>, <<"FLOAT", TRUE>>}
WriteGltfs ==
  {Gltf(Accessor(ck[1], type, ck[2], storage), storage) :
     ck \in WriteKinds, type \in {"SCALAR", "VEC2"}, storage \in {"resident", "external"}}

\* and without one
ZeroKinds == {<<"BYTE", TRUE>>, <<"FLOAT", TRUE>>, <<"FLOAT", FALSE>>}
ZeroGltfs ==
  {Gltf(Accessor(x[1][1], x[2], x[1][2], "none"), "none") :
     x \in {y \in ZeroKinds \X {"SCALAR", "VEC2"} :
                  y[2] = "SCALAR" \/ y[1] = <<"FLOAT", TRUE>>}}

WriteNext ==
  \/ \E gltf \in WriteGltfs : NewBinaryProperty(gltf)
  \/ \E p \in 1 .. Len(promises) : FetchArrayBufferSucceeds(p)
  \/ \E p \in 1 .. Len(promises) : FetchFails(p)
  \/ BufferThen
  \/ BufferOtherwise
  \/ BinaryContinuation
  \/ \E o \in 1 .. Len(props), i \in FeatureIds :
       \E v \in ValuesOfShape(props[o].componentCount) : BinarySetValue(o, i, v)

\* the pending state is reached in the build without the debug checks
InitWrite == debug = FALSE /\ Constructed

SpecWrite == InitWrite /\ [][WriteNext]_vars

\* properties that have no buffer view ask the cache for nothing
ZeroNext ==
  \/ \E gltf \in ZeroGltfs : NewBinaryProperty(gltf)
  \/ \E o \in 1 .. Len(props), i \in FeatureIds : CallBinaryGetValue(o, i)
  \/ \E o \in 1 .. Len(props), i \in FeatureIds :
       \E v \in ValuesOfShape(props[o].componentCount) : BinarySetValue(o, i, v)

\* nothing here depends on the build
InitZero == debug = TRUE /\ Constructed

SpecZero == InitZero /\ [][ZeroNext]_vars

-----------------------------------------------------------------------------
(* The value ranges and the codec of the component types *)

IntegerTypes == {"BYTE", "UNSIGNED_BYTE", "SHORT", "UNSIGNED_SHORT", "INT", "UNSIGNED_INT"}
ComponentTypes == IntegerTypes \cup {"FLOAT"}

\* the raw values an array of the type holds.  Of the 32-bit types the values
\* from -(2^31 - 1) to 2^31 - 1 are taken.
TypeMin(componentType) ==
  CASE componentType = "BYTE" -> -128
    [] componentType = "SHORT" -> -32768
    [] componentType = "INT" -> -2147483647
    [] OTHER -> 0

TypeMax(componentType) ==
  CASE componentType = "BYTE" -> 127
    [] componentType = "UNSIGNED_BYTE" -> 255
    [] componentType = "SHORT" -> 32767
    [] componentType = "UNSIGNED_SHORT" -> 65535
    [] OTHER -> 2147483647

\* every value of the one-byte types, the ends and the middle of the others
RawSamples(componentType) ==
  IF getSizeInBytes(componentType) = 1
    THEN TypeMin(componentType) .. TypeMax(componentType)
    ELSE {r \in {TypeMin(componentType), TypeMin(componentType) + 1, -2, -1, 0, 1, 2, 100,
                 TypeMax(componentType) - 1, TypeMax(componentType)} :
            r >= TypeMin(componentType)}

\* normalized values
NormalizedSamples(componentType) ==
  {x \in {Int2Num(-1), Num(-1, 2), Num(-1, 5), Int2Num(0), Num(1, 5), Num(1, 2), Int2Num(1)} :
     isSignedComponentType(componentType) \/ x.num >= 0}

\* the fields of a property that the codec reads
CodecProperty(componentType, normalized) ==
  BinaryProperty(Gltf(Accessor(componentType, "SCALAR", normalized, "none"), "none"),
                 Accessor(componentType, "SCALAR", normalized, "none"), Undefined)

\* lines 78-79
Ranges(componentType) ==
  /\ last' = [op |-> "range", componentType |-> componentType,
              maximumValue |-> getMaximumValue(componentType),
              lowestValue |-> getLowestValue(componentType)]
  /\ UNCHANGED <<held, table, debug, jsonCache, bufferCache, promiseCache, promises, calls, jobs,
                 arrays, buffers, props>>

\* lines 225-235
Decode(componentType, normalized, raw) ==
  /\ last' = [op |-> "decode", componentType |-> componentType, normalized |-> normalized,
              raw |-> Int2Num(raw),
              value |-> decodeValue(CodecProperty(componentType, normalized), Int2Num(raw))]
  /\ UNCHANGED <<held, table, debug, jsonCache, bufferCache, promiseCache, promises, calls, jobs,
                 arrays, buffers, props>>

\* lines 237-243
Encode(componentType, normalized, value) ==
  /\ last' = [op |-> "encode", componentType |-> componentType, normalized |-> normalized,
              value |-> value,
              raw |-> encodeValue(CodecProperty(componentType, normalized), value)]
  /\ UNCHANGED <<held, table, debug, jsonCache, bufferCache, promiseCache, promises, calls, jobs,
                 arrays, buffers, props>>

CodecNext ==
  \/ \E ct \in ComponentTypes : Ranges(ct)
  \/ \E ct \in ComponentTypes, n \in BOOLEAN : \E r \in RawSamples(ct) : Decode(ct, n, r)
  \/ \E ct \in ComponentTypes, n \in BOOLEAN : \E x \in NormalizedSamples(ct) : Encode(ct, n, x)

SpecCodec == InitZero /\ [][CodecNext]_vars

-----------------------------------------------------------------------------
(* GltfFeatureTable *)

\* the names a feature table declares, and one it does not
Names == {"a", "b"}
NameOrder == <<"a", "b">>
UnknownName == "zz"

\* featureTable.featureProperties[name]: an accessor property or an array
\* property; the accessors of these tables have their bytes at hand or have none
PropertyJson(descriptor, accessor, array) ==
  [type |-> "object", descriptor |-> descriptor, accessor |-> accessor, array |-> array]

AccessorJson(gltf) == PropertyJson(Undefined, [type |-> "accessor", gltf |-> gltf], Undefined)
ArrayJson(array) == PropertyJson(Undefined, Undefined, array)

TablePropertyJsons ==
  {ArrayJson(InlineArray),
   AccessorJson(Gltf(Accessor("FLOAT", "VEC2", FALSE, "none"), "none")),
   AccessorJson(Gltf(Accessor("UNSIGNED_BYTE", "SCALAR", TRUE, "resident"), "resident"))}

\* tables of one or two properties: "a" of any kind, "b" an array if declared
FeatureTables ==
  [featureProperties : {fp \in [Names -> TablePropertyJsons \cup {Undefined}] :
                          defined(fp["a"]) /\ fp["b"] \in {Undefined, ArrayJson(InlineArray)}},
   featureCount : {Int2Num(FeatureCount), Undefined}]

\* new GltfFeatureTableDescriptorProperty(...)
DescriptorProperty ==
  [kind |-> "descriptor", written |-> [i \in FeatureIds |-> Undefined]]

\* lines 45-71: the properties are constructed in the order of their names
RECURSIVE BuildProperties(_, _, _)
BuildProperties(featureProperties, k, built) ==
  IF k > Len(NameOrder) THEN built
  ELSE LET name == NameOrder[k]
           property == featureProperties[name]
           index == Len(built.props) + 1
       IN IF ~defined(property) THEN BuildProperties(featureProperties, k + 1, built)
          ELSE IF defined(property.descriptor)
            THEN BuildProperties(featureProperties, k + 1,
                   [built EXCEPT !.props = Append(@, DescriptorProperty),
                                 !.properties[name] = index])
          ELSE IF defined(property.accessor)
            THEN LET gltf == property.accessor.gltf
                     typedArray == getTypedArrayForAccessor(gltf, gltf.accessor,
                                     getBufferSource(gltf, gltf.accessor))
                 IN BuildProperties(featureProperties, k + 1,
                      [built EXCEPT !.props = Append(@, BinaryProperty(gltf, gltf.accessor,
                                                                       typedArray)),
                                    !.properties[name] = index])
          ELSE IF defined(property.array.external)
            THEN BuildProperties(featureProperties, k + 1,
                   [built EXCEPT !.props = Append(@, ArrayProperty(Undefined, TRUE)),
                                 !.properties[name] = index])
          ELSE LET values == property.array.values
               IN BuildProperties(featureProperties, k + 1,
                    [built EXCEPT !.arrays = @ \o <<values, values>>,
                                  !.props = Append(@, ArrayProperty(
                                                        ArrayRef(Len(built.arrays) + 2), FALSE)),
                                  !.properties[name] = index])

\* the names of the properties whose array is in an external file
ExternalNames(featureTable) ==
  {n \in Names : /\ defined(featureTable.featureProperties[n])
                 /\ ~defined(featureTable.featureProperties[n].descriptor)
                 /\ ~defined(featureTable.featureProperties[n].accessor)
                 /\ defined(featureTable.featureProperties[n].array.external)}

\* lines 31-78; the array property over an external file asks the cache for it
\* (part_000 lines 411-416), and the tables have at most one of them
NewTable(featureTable) ==
  LET built == BuildProperties(featureTable.featureProperties, 1,
                 [props |-> props, arrays |-> arrays, properties |-> [n \in Names |-> 0]])
  IN /\ jobs = <<>>
     /\ ~defined(table)
     /\ Len(built.props) <= MaxProps
     /\ IF ExternalNames(featureTable) = {}
          THEN UNCHANGED <<jsonCache, bufferCache, promiseCache, promises, calls>>
          ELSE \E n \in ExternalNames(featureTable) :
                 /\ ExternalNames(featureTable) = {n}
                 /\ Len(calls) < MaxCalls
                 /\ getExternalValues(featureTable.featureProperties[n].array.external,
                                      built.properties[n])
     /\ props' = built.props
     /\ arrays' = built.arrays
     /\ table' = [type |-> "object", features |-> Undefined, made |-> 0,
                  properties |-> built.properties,
                  featureCount |-> featureTable.featureCount]
     /\ last' = Returned("new GltfFeatureTable")
     /\ UNCHANGED <<held, debug, jobs, buffers>>

\* a lookup that falls back on the first property
MutPropertyNamed(name) == IF name \in Names /\ table.properties[name] # 0
                            THEN table.properties[name] ELSE 1

\* this._properties[name]: the index of the property, 0 for undefined
PropertyNamed(name) == IF name \in Names THEN table.properties[name] ELSE 0

\* a check that takes an undefined count for no limit
MutCheckFeatureId(featureId, featureCount) ==
  defined(featureCount) /\ (featureId < 0 \/ featureId > featureCount.num)

\* lines 139-148: TRUE when the DeveloperError is thrown
checkFeatureId(featureId, featureCount) ==
  ~defined(featureCount) \/ featureId < 0 \/ featureId > featureCount.num

\* property.type: GltfFeatureTablePropertyType.getTypeFromAccessorType gives the
\* scalar accessor the type of a number and a vector or matrix accessor its
\* own; the arrays of these tables hold numbers
PropertyType(property) ==
  IF property.kind = "binary"
    THEN IF property.gltf.accessor.type = "SCALAR" THEN "NUMBER"
         ELSE property.gltf.accessor.type
  ELSE IF property.kind = "array" THEN "NUMBER"
  ELSE "DESCRIPTOR"

\* the class a vector or matrix type is held in
ClassOfType(type) ==
  CASE type = "VEC2" -> "Cartesian2" [] type = "VEC3" -> "Cartesian3"
    [] type = "VEC4" -> "Cartesian4" [] type = "MAT2" -> "Matrix2"
    [] type = "MAT3" -> "Matrix3" [] type = "MAT4" -> "Matrix4"
    [] OTHER -> "none"

\* the class of a value: the vectors are told by their length
ClassOf(value) ==
  IF value.type # "composite" THEN "none"
  ELSE CASE Len(value.comps) = 2 -> "Cartesian2" [] Len(value.comps) = 3 -> "Cartesian3"
         [] Len(value.comps) = 4 -> "Cartesian4" [] Len(value.comps) = 9 -> "Matrix3"
         [] OTHER -> "Matrix4"

\* a check that takes any vector or matrix for any other
MutClassMismatch(type, value) ==
  ClassOfType(type) # "none" /\ ClassOf(value) = "none"

\* lines 226-259 and 304-334: a vector or matrix type asks for its class
ClassMismatch(type, value) ==
  ClassOfType(type) # "none" /\ ClassOf(value) # ClassOfType(type)

\* a check that leaves out the numbers
MutTypeofMismatch(type, value) ==
  \/ type = "STRING" /\ value.type # "string"
  \/ type = "BOOLEAN" /\ value.type # "boolean"

\* lines 335-350
TypeofMismatch(type, value) ==
  \/ type = "STRING" /\ value.type # "string"
  \/ type = "NUMBER" /\ value.type # "number"
  \/ type = "BOOLEAN" /\ value.type # "boolean"

\* what a call threw, or the value it returned, and what the result object
\* handed to it holds afterwards
Outcome(op, threw, value, result) ==
  [op |-> op, threw |-> threw, value |-> value, result |-> result]

\* the step that made the call records whether it threw
Did(outcome) == [op |-> outcome.op, threw |-> outcome.threw]

\* classType.unpack(array, startingIndex, result) and classType.clone(ZERO,
\* result): the components are assigned to the fields of the result object,
\* which keeps the fields it has beyond them; without one a new object is made
Unpack(value, result) ==
  IF ~defined(result) \/ result.type # "composite" THEN value
  ELSE IF Len(result.comps) <= Len(value.comps) THEN value
  ELSE Composite([i \in 1 .. Len(result.comps) |->
                    IF i <= Len(value.comps) THEN value.comps[i] ELSE result.comps[i]])

\* property.getValue(featureId, result): a vector is unpacked into the result
\* object and that object is returned (part_000 lines 280, 299, 302); the
\* array property does not take a result (line 476)
PropertyGetValue(property, featureId, result) ==
  IF property.kind = "binary"
    THEN LET value == BinaryGetValue(property, featureId)
         IN IF value.type = "composite" THEN Unpack(value, result) ELSE value
  ELSE IF property.kind = "array" THEN ArrayGetValue(property, featureId)
  ELSE Undefined

\* what the result object holds after property.getValue(featureId, result)
ResultAfter(property, featureId, result) ==
  IF /\ property.kind = "binary" /\ defined(result)
     /\ BinaryGetValue(property, featureId).type = "composite"
    THEN PropertyGetValue(property, featureId, result)
    ELSE result

\* lines 207-263
getPropertyValue(featureId, name, result) ==
  LET o == PropertyNamed(name) IN
    IF debug /\ checkFeatureId(featureId, table.featureCount)
      THEN Outcome("getPropertyValue", "DeveloperError: featureId", Undefined, result)
    ELSE IF debug /\ o = 0
      THEN Outcome("getPropertyValue", "DeveloperError: name", Undefined, result)
    ELSE IF debug /\ defined(result) /\ ClassMismatch(PropertyType(props[o]), result)
      THEN Outcome("getPropertyValue", "DeveloperError: result", Undefined, result)
    ELSE IF o = 0
      THEN Outcome("getPropertyValue", "TypeError", Undefined, result)
    ELSE Outcome("getPropertyValue", "none", PropertyGetValue(props[o], featureId, result),
                 ResultAfter(props[o], featureId, result))

CallGetPropertyValue(featureId, name, result) ==
  /\ jobs = <<>>
  /\ defined(table)
  /\ last' = Did(getPropertyValue(featureId, name, result))
  /\ UNCHANGED <<held, table, debug, jsonCache, bufferCache, promiseCache, promises, calls, jobs,
                 arrays, buffers, props>>

\* lines 285-351: what setPropertyValue throws before it calls setValue
setPropertyValueThrows(featureId, name, value) ==
  LET o == PropertyNamed(name) IN
    IF debug /\ checkFeatureId(featureId, table.featureCount) THEN "DeveloperError: featureId"
    ELSE IF debug /\ o = 0 THEN "DeveloperError: name"
    ELSE IF debug /\ (\/ ClassMismatch(PropertyType(props[o]), value)
                      \/ TypeofMismatch(PropertyType(props[o]), value))
      THEN "DeveloperError: value"
    ELSE IF o = 0 THEN "TypeError"
    ELSE "none"

\* lines 285-354
CallSetPropertyValue(featureId, name, value) ==
  /\ jobs = <<>>
  /\ defined(table)
  /\ IF setPropertyValueThrows(featureId, name, value) # "none"
       THEN /\ last' = Threw("setPropertyValue",
                             setPropertyValueThrows(featureId, name, value))
            /\ UNCHANGED <<held, table, debug, jsonCache, bufferCache, promiseCache, promises,
                           calls, jobs, arrays, buffers, props>>
       ELSE \/ ArraySetValue(PropertyNamed(name), featureId, value)
            \/ BinarySetValue(PropertyNamed(name), featureId, value)

\* new GltfFeature(featureTable, featureId): the object is told from every
\* other by the number of features made before it; the table is the one table
GltfFeature(featureId, object) ==
  [type |-> "feature", featureTable |-> "this", featureId |-> featureId, object |-> object]

\* the count a loop runs to: nothing when the count is undefined
FeaturesMade == IF defined(table.featureCount) THEN table.featureCount.num ELSE 0

\* one that makes the features anew at every call
MutCreateFeatures ==
  [table EXCEPT !.features = [type |-> "features",
                              list |-> [i \in 1 .. FeaturesMade |->
                                          GltfFeature(i - 1, table.made + i)]],
                !.made = @ + FeaturesMade]

\* lines 150-159: the table after createFeatures(this); new Array(featureCount)
\* is filled with the features, and an undefined count gives the array of the
\* one element undefined; table.made counts the features ever made
createFeatures ==
  IF defined(table.features) THEN table
  ELSE [table EXCEPT !.features =
                       [type |-> "features",
                        list |-> IF defined(table.featureCount)
                                   THEN [i \in 1 .. FeaturesMade |->
                                           GltfFeature(i - 1, table.made + i)]
                                   ELSE <<Undefined>>],
                     !.made = @ + FeaturesMade]

\* lines 174-182
getFeature(featureId) ==
  IF debug /\ checkFeatureId(featureId, table.featureCount)
    THEN Outcome("getFeature", "DeveloperError: featureId", Undefined, Undefined)
    ELSE Outcome("getFeature", "none",
                 IF featureId + 1 \in 1 .. Len(createFeatures.features.list)
                   THEN createFeatures.features.list[featureId + 1] ELSE Undefined,
                 Undefined)

CallGetFeature(featureId) ==
  /\ jobs = <<>>
  /\ defined(table)
  /\ IF debug /\ checkFeatureId(featureId, table.featureCount)
       THEN /\ last' = Did(getFeature(featureId))
            /\ table' = table
       ELSE /\ table' = createFeatures
            /\ last' = Did(getFeature(featureId))
  /\ UNCHANGED <<held, debug, jsonCache, bufferCache, promiseCache, promises, calls, jobs,
                 arrays, buffers, props>>

\* a feature that does not hand the result object on
MutGetProperty(feature, name, result) ==
  getPropertyValue(feature.featureId, name, Undefined)

\* GltfFeature.js lines 29-31
getProperty(feature, name, result) ==
  getPropertyValue(feature.featureId, name, result)

\* feature.getProperty(name, result), for a feature getFeature has returned
CallGetProperty(feature, name, result) ==
  /\ jobs = <<>>
  /\ defined(table) /\ defined(table.features)
  /\ \E k \in 1 .. Len(table.features.list) : table.features.list[k] = feature
  /\ defined(feature)
  /\ last' = [Did(getProperty(feature, name, result)) EXCEPT !.op = "getProperty"]
  /\ UNCHANGED <<held, table, debug, jsonCache, bufferCache, promiseCache, promises, calls,
                 jobs, arrays, buffers, props>>

\* the features getFeature can have returned
Features == {GltfFeature(i, i + 1) : i \in FeatureIds}

\* the feature ids and the values the table is called with
CalledIds == -1 .. FeatureCount
\* the ids values are written at: one below the range, the first, the last and
\* one past the last
WrittenIds == {-1, 0, FeatureCount - 1, FeatureCount}
CalledNames == Names \cup {UnknownName}
CalledResults == {Undefined, Composite(<<Int2Num(9), Int2Num(9)>>),
                  Composite(<<Int2Num(9), Int2Num(9), Int2Num(9)>>)}
CalledValues == {Int2Num(7), Composite(<<Int2Num(1), Num(1, 2)>>)}

TableNext ==
  \/ \E featureTable \in FeatureTables : NewTable(featureTable)
  \/ \E i \in CalledIds, n \in CalledNames, r \in CalledResults : CallGetPropertyValue(i, n, r)
  \/ \E i \in WrittenIds, n \in CalledNames, v \in CalledValues : CallSetPropertyValue(i, n, v)
  \/ \E i \in CalledIds : CallGetFeature(i)
  \/ \E f \in Features, n \in CalledNames, r \in CalledResults : CallGetProperty(f, n, r)

SpecTable == Init /\ [][TableNext]_vars

-----------------------------------------------------------------------------
(* A table with a property over an external file, and the fetch of the file *)

\* "a" is an inline array or an accessor, "b" an array of an external file
FetchTables ==
  {[featureProperties |-> [n \in Names |-> IF n = "a" THEN a
                                           ELSE ArrayJson(ExternalArray(ArrayUri, "k1"))],
    featureCount |-> Int2Num(FeatureCount)] : a \in TablePropertyJsons}

FetchTableNext ==
  \/ \E featureTable \in FetchTables : NewTable(featureTable)
  \/ \E p \in 1 .. Len(promises), t \in DocTemplates : FetchJsonSucceeds(p, t)
  \/ \E p \in 1 .. Len(promises) : FetchFails(p)
  \/ ValuesThen
  \/ ValuesOtherwise
  \/ ArrayContinuation
  \/ \E i \in FeatureIds, n \in CalledNames : CallGetPropertyValue(i, n, Undefined)
  \/ \E i \in FeatureIds, n \in CalledNames, v \in CalledValues : CallSetPropertyValue(i, n, v)
  \/ \E i \in FeatureIds : CallGetFeature(i)

SpecFetchTable == Init /\ [][FetchTableNext]_vars

-----------------------------------------------------------------------------
(* Tables whose properties name a descriptor, alone or next to their storage *)

Descriptor == [type |-> "object"]
VectorAccessor ==
  [type |-> "accessor", gltf |-> Gltf(Accessor("FLOAT", "VEC2", FALSE, "none"), "none")]

\* featureProperties[name] with one or two of descriptor, accessor and array
VariantJsons ==
  {ArrayJson(InlineArray),
   AccessorJson(VectorAccessor.gltf),
   PropertyJson(Descriptor, Undefined, Undefined),
   PropertyJson(Descriptor, VectorAccessor, Undefined),
   PropertyJson(Descriptor, Undefined, InlineArray),
   PropertyJson(Undefined, VectorAccessor, InlineArray)}

VariantTables ==
  {[featureProperties |-> [n \in Names |-> IF n = "a" THEN a ELSE b],
    featureCount |-> Int2Num(FeatureCount)] :
     a \in VariantJsons, b \in {Undefined, ArrayJson(InlineArray)}}

VariantNext ==
  \/ \E featureTable \in VariantTables : NewTable(featureTable)
  \/ \E i \in FeatureIds, n \in CalledNames : CallGetPropertyValue(i, n, Undefined)
  \/ \E i \in FeatureIds, n \in CalledNames, v \in CalledValues : CallSetPropertyValue(i, n, v)
  \/ \E i \in FeatureIds : CallGetFeature(i)

SpecVariants == Init /\ [][VariantNext]_vars

-----------------------------------------------------------------------------
(* Properties of the cache *)

PromiseIds == 1 .. Len(promises)
CallIds == 1 .. Len(calls)
FetchesIssued(u, kind) ==
  Cardinality({p \in PromiseIds : promises[p].uri = u /\ promises[p].kind = kind})
Drained(p) == \A c \in CallIds : calls[c].promise = p => calls[c].state # "pending"

\* C1: for every resolved URI the JSON fetch is issued at most once and the
\* byte fetch is issued at most once, whatever requests and settlements happen
C1_FetchIssuedAtMostOnce ==
  \A u \in ResolvedUris : FetchesIssued(u, "json") <= 1 /\ FetchesIssued(u, "bytes") <= 1

\* three requests of one kind for one URI: the first started the fetch, the
\* second came while it was in flight, the third after it settled
C1_Witness ==
  \E c1, c2, c3 \in CallIds :
    /\ c1 < c2 /\ c2 < c3
    /\ calls[c1].uri = calls[c2].uri /\ calls[c2].uri = calls[c3].uri
    /\ calls[c1].op = calls[c2].op /\ calls[c2].op = calls[c3].op
    /\ calls[c1].promise # 0 /\ calls[c2].promise = calls[c1].promise
    /\ calls[c3].state = "sync"

\* C2: a URI never has an in-flight entry together with a resolved entry,
\* the JSON mapping and the byte-buffer mapping both counted as resolved entries
C2_OneStatePerUri ==
  \A u \in ResolvedUris :
    ~(defined(promiseCache[u]) /\ (defined(jsonCache[u]) \/ defined(bufferCache[u])))

\* C3: a fetchValue caller registered on an in-flight JSON fetch receives, when
\* the fetch succeeds, the array the fetched document holds under the caller's key
C3_WaiterGetsOwnKey ==
  \A c \in CallIds :
    LET p == calls[c].promise IN
      (/\ calls[c].op = "values" /\ calls[c].state = "fulfilled"
       /\ promises[p].kind = "json" /\ promises[p].state = "fulfilled")
      => /\ calls[c].value = promises[p].value.map[calls[c].key.s]
         /\ IF TemplateHas(promises[p].tmpl, calls[c].key.s)
              THEN /\ calls[c].value.type = "array"
                   /\ arrays[calls[c].value.ref] = TemplateArray(promises[p].tmpl, calls[c].key.s)
              ELSE calls[c].value = Undefined

\* two callers with different keys were served by one successful fetch
C3_Witness ==
  \E c1, c2 \in CallIds :
    /\ c1 # c2 /\ calls[c1].promise = calls[c2].promise /\ calls[c1].promise # 0
    /\ calls[c1].op = "values" /\ calls[c2].op = "values"
    /\ calls[c1].key = Str("k2") /\ calls[c2].key = Str("k1") /\ c1 < c2
    /\ calls[c1].state = "fulfilled" /\ calls[c2].state = "fulfilled"
    /\ promises[calls[c1].promise].kind = "json"
    /\ promises[calls[c1].promise].state = "fulfilled"
    /\ calls[c1].value # calls[c2].value

\* C4: after a failed JSON fetch every future fetchValue returned for it is
\* fulfilled with undefined (none is rejected), the cache holds the empty document
\* for the URI, later requests return undefined at once, and no fetch is repeated
C4_JsonFailureIsCached ==
  \A p \in PromiseIds :
    (promises[p].kind = "json" /\ promises[p].state = "rejected") =>
      LET u == promises[p].uri IN
        /\ \A c \in CallIds :
             (calls[c].promise = p /\ calls[c].op = "values") =>
               /\ calls[c].state \in {"pending", "fulfilled"}
               /\ calls[c].state = "fulfilled" => calls[c].value = Undefined
               /\ jobs = <<>> => calls[c].state = "fulfilled"
        /\ jobs = <<>> => jsonCache[u] = EmptyDoc
        /\ \A c \in CallIds :
             (calls[c].op = "values" /\ calls[c].uri = u /\ calls[c].state = "sync") =>
               calls[c].value = Undefined
        /\ FetchesIssued(u, "json") = 1

\* a JSON fetch failed with two futures waiting, and a later request hit the cache
C4_Witness ==
  \E p \in PromiseIds, c1, c2, c3 \in CallIds :
    /\ promises[p].kind = "json" /\ promises[p].state = "rejected"
    /\ c1 < c2 /\ calls[c1].promise = p /\ calls[c2].promise = p
    /\ calls[c1].op = "values" /\ calls[c2].op = "values"
    /\ calls[c1].state = "fulfilled" /\ calls[c2].state = "fulfilled"
    /\ calls[c3].op = "values" /\ calls[c3].uri = promises[p].uri /\ calls[c3].state = "sync"

ZeroLengthBuffer == [type |-> "uint8array", ref |-> 0]

\* C5: after a failed byte fetch every future fetchBuffer returned for it is
\* fulfilled with a zero-length buffer (none is rejected), the cache holds that
\* buffer for the URI, later requests return it at once, and no fetch is repeated
C5_BufferFailureIsCached ==
  \A p \in PromiseIds :
    (promises[p].kind = "bytes" /\ promises[p].state = "rejected") =>
      LET u == promises[p].uri IN
        /\ \A c \in CallIds :
             (calls[c].promise = p /\ calls[c].op = "buffer") =>
               /\ calls[c].state \in {"pending", "fulfilled"}
               /\ calls[c].state = "fulfilled" => calls[c].value = ZeroLengthBuffer
               /\ jobs = <<>> => calls[c].state = "fulfilled"
        /\ jobs = <<>> => bufferCache[u] = ZeroLengthBuffer
        /\ \A c \in CallIds :
             (calls[c].op = "buffer" /\ calls[c].uri = u /\ calls[c].state = "sync") =>
               calls[c].value = ZeroLengthBuffer
        /\ FetchesIssued(u, "bytes") = 1

\* a byte fetch failed with two futures waiting, and a later request hit the cache
C5_Witness ==
  \E p \in PromiseIds, c1, c2, c3 \in CallIds :
    /\ promises[p].kind = "bytes" /\ promises[p].state = "rejected"
    /\ c1 < c2 /\ calls[c1].promise = p /\ calls[c2].promise = p
    /\ calls[c1].op = "buffer" /\ calls[c2].op = "buffer"
    /\ calls[c1].state = "fulfilled" /\ calls[c2].state = "fulfilled"
    /\ calls[c3].op = "buffer" /\ calls[c3].uri = promises[p].uri /\ calls[c3].state = "sync"

\* C6: a resolved entry (cached document or cached buffer) is never removed and
\* never replaced by another value
C6_ResolvedEntryIsKept ==
  [][\A u \in ResolvedUris :
       /\ defined(jsonCache[u]) => jsonCache'[u] = jsonCache[u]
       /\ defined(bufferCache[u]) => bufferCache'[u] = bufferCache[u]]_vars

\* a URI with a resolved document was requested again, as a document and as a
\* buffer, and the byte fetch has been settled too
C6_Witness ==
  \E u \in ResolvedUris, c \in CallIds :
    /\ defined(jsonCache[u]) /\ defined(bufferCache[u])
    /\ calls[c].uri = u /\ calls[c].state = "sync"

-----------------------------------------------------------------------------
(* Properties of the array property *)

PropIds == 1 .. Len(props)

\* the call an external property made to the cache
OwnerCalls(o) == {c \in CallIds : calls[c].owner = o}

\* the property's continuation has run: its future is fulfilled and the job
\* that delivers the value is no longer queued
ContinuationRan(o) ==
  \E c \in OwnerCalls(o) :
    /\ calls[c].state = "fulfilled"
    /\ \A j \in 1 .. Len(jobs) : ~(jobs[j].type = "prop" /\ jobs[j].call = c)

\* the values the server sent for the property's key
Fetched(c) == TemplateArray(promises[calls[c].promise].tmpl, calls[c].key.s)

\* the arrays stored in the cache
CachedRefs ==
  {jsonCache[u].map[k].ref :
     <<u, k>> \in {x \in ResolvedUris \X Keys :
                     jsonCache[x[1]].type = "object" /\ jsonCache[x[1]].map[x[2]].type = "array"}}

Unwritten(o) == \A i \in FeatureIds : props[o].written[i] = Undefined

\* C7: writes through a property never change a sequence stored in the cache:
\* every cached array still holds the fetched values, every property that is
\* still bound to the cache reads them, and a property that has stored a value
\* holds an array of its own and is no longer flagged as shared
C7_CacheIsNotMutated ==
  /\ \A c \in CallIds :
       (calls[c].op = "values" /\ calls[c].state = "fulfilled" /\ calls[c].value.type = "array")
         => arrays[calls[c].value.ref] = Fetched(c)
  /\ \A o \in PropIds :
       props[o].kind = "array" =>
         /\ (props[o].fromCache /\ defined(props[o].values)) =>
              \E c \in OwnerCalls(o) :
                /\ props[o].values = calls[c].value
                /\ \A i \in FeatureIds : ArrayGetValue(props[o], i) = Fetched(c)[i + 1]
         /\ ~Unwritten(o) => ~props[o].fromCache /\ props[o].values.ref \notin CachedRefs

\* two properties were bound to the same cached array, one has stored a value
\* since and reads it back, the other is still bound to the cache
C7_Witness ==
  \E o1, o2 \in PropIds, c1, c2 \in CallIds, i \in FeatureIds :
    /\ o1 # o2 /\ calls[c1].owner = o1 /\ calls[c2].owner = o2
    /\ calls[c1].value.type = "array" /\ calls[c1].value = calls[c2].value
    /\ calls[c1].value.ref \in CachedRefs
    /\ defined(props[o1].written[i])
    /\ ArrayGetValue(props[o1], i) = props[o1].written[i]
    /\ props[o2].fromCache /\ props[o2].values = calls[c2].value

\* C8: an external array property reads undefined for every feature until its
\* continuation has run; after it has run with an array, every feature that
\* has not been written reads the fetched element of its index
C8_ExternalArrayReads ==
  \A o \in PropIds :
    (props[o].kind = "array" /\ props[o].external) =>
      \A i \in FeatureIds :
        /\ ~ContinuationRan(o) => ArrayGetValue(props[o], i) = Undefined
        /\ \A c \in OwnerCalls(o) :
             (ContinuationRan(o) /\ calls[c].value.type = "array"
                /\ props[o].written[i] = Undefined)
               => ArrayGetValue(props[o], i) = Fetched(c)[i + 1]

\* the continuation of one external property has run and the property reads the
\* fetched elements, while another property of the same file still waits for
\* its continuation and reads undefined
C8_Witness ==
  \E o1, o2 \in PropIds, c2 \in CallIds :
    /\ props[o1].kind = "array" /\ props[o1].external /\ ~ContinuationRan(o1)
    /\ props[o2].kind = "array" /\ props[o2].external /\ ContinuationRan(o2)
    /\ calls[c2].owner = o2 /\ calls[c2].value.type = "array"
    /\ \A i \in FeatureIds : ArrayGetValue(props[o2], i) = Fetched(c2)[i + 1]
    /\ \A i \in FeatureIds : ArrayGetValue(props[o1], i) = Undefined

-----------------------------------------------------------------------------
(* Properties of the accessor property *)

\* the property asked the cache for its buffer and the buffer has not been
\* delivered to it yet
Pending(o) == props[o].kind = "binary" /\ OwnerCalls(o) # {} /\ ~ContinuationRan(o)

\* the property found its typed array while it was constructed
BoundAtConstruction(o) ==
  /\ props[o].kind = "binary"
  /\ OwnerCalls(o) = {}
  /\ defined(props[o].typedArray)

\* the raw components of a feature, and what a reader of the accessor expects
\* of them: a normalized unsigned byte is divided by 255, a normalized signed
\* byte by 127 and kept above -1, every other component is returned as stored
RawComponent(property, index) == TypedArrayGet(property.typedArray, index)

ComponentMaximum(componentType) ==
  IF isSignedComponentType(componentType)
    THEN Int2Num(Pow2(8 * getSizeInBytes(componentType) - 1) - 1)
    ELSE Int2Num(Pow2(8 * getSizeInBytes(componentType)) - 1)

DecodedComponent(property, index) ==
  LET raw == RawComponent(property, index) IN
    IF ~property.normalized THEN raw
    ELSE IF property.signed
      THEN MathMax(Divide(raw, ComponentMaximum(property.componentType)), Int2Num(-1))
    ELSE Divide(raw, ComponentMaximum(property.componentType))

DecodedValue(property, featureId) ==
  IF property.componentCount = 1 THEN DecodedComponent(property, featureId)
  ELSE Composite([i \in 1 .. property.componentCount |->
                    DecodedComponent(property, featureId * property.componentCount + i - 1)])

\* C9: while the buffer of an accessor property is requested and not yet
\* delivered, getValue returns undefined for every feature id
C9_PendingReadsUnavailable ==
  \A o \in PropIds :
    Pending(o) => \A i \in FeatureIds : BinaryGetValue(props[o], i) = Undefined

\* C10: an accessor property bound to its buffer at construction reads, for
\* every feature id, the decoding of the componentCount raw components that
\* start at featureId * componentCount; a normalized unsigned byte 255 reads
\* as 1 and 0 as 0
C10_BoundReadsDecodedComponents ==
  \A o \in PropIds :
    BoundAtConstruction(o) =>
      \A i \in FeatureIds : BinaryGetValue(props[o], i) = DecodedValue(props[o], i)

\* the property has no buffer view and nothing was written through it
ImplicitZero(o) ==
  /\ props[o].kind = "binary"
  /\ ~defined(props[o].gltf.accessor.bufferView)
  /\ Unwritten(o)

\* the additive identity of a shape of n components
ZeroOfShape(n) ==
  IF n = 1 THEN Int2Num(0) ELSE Composite([i \in 1 .. n |-> Int2Num(0)])

\* C11: getValue on an accessor property that has no buffer view and was never
\* written returns 0 for a scalar and the zero vector for a composite, for every
\* feature id, and the call leaves the property as it was: still without
\* storage, and no buffer allocated
C11_ImplicitZeroReadsZero ==
  [][\A o \in PropIds, i \in FeatureIds :
       (ImplicitZero(o) /\ CallBinaryGetValue(o, i)) =>
         /\ BinaryGetValue(props[o], i) = ZeroOfShape(props[o].componentCount)
         /\ ~defined(props[o].typedArray)
         /\ props' = props /\ buffers' = buffers
         /\ ImplicitZero(o)']_vars

\* getValue has returned while a vector property and a scalar property are
\* both still unwritten and without storage
C11_Witness ==
  /\ last = Returned("getValue")
  /\ \E o1, o2 \in PropIds :
       /\ ImplicitZero(o1) /\ props[o1].componentCount = 2
       /\ ImplicitZero(o2) /\ props[o2].componentCount = 1
       /\ BinaryGetValue(props[o1], 0) = Composite(<<Int2Num(0), Int2Num(0)>>)
       /\ ~defined(props[o1].typedArray) /\ ~defined(props[o2].typedArray)

\* the accessor of the property names no buffer view
NoBufferView(o) ==
  props[o].kind = "binary" /\ ~defined(props[o].gltf.accessor.bufferView)

\* the property holds a dense array of its own
HoldsDenseArray(o) ==
  /\ ~props[o].initializedWithZeros
  /\ defined(props[o].typedArray)
  /\ props[o].typedArray.len = props[o].componentCount * props[o].count
  /\ Len(buffers[props[o].typedArray.ref]) = props[o].typedArray.len

\* every feature reads what was last written to it, and zero if nothing was
ReadsWhatWasWritten(o) ==
  \A i \in FeatureIds :
    BinaryGetValue(props[o], i) =
      IF defined(props[o].written[i]) THEN props[o].written[i]
      ELSE ZeroOfShape(props[o].componentCount)

\* C12: a property without a buffer view leaves the zero state in its first
\* setValue and never again: from then on it holds a dense array of
\* componentCount * count slots, the written features read back what was
\* written and the others read zero, and no later step gives it another array
C12_ZeroStateIsLeftOnce ==
  /\ [](\A o \in PropIds :
          NoBufferView(o) =>
            IF Unwritten(o) THEN props[o].initializedWithZeros /\ ~defined(props[o].typedArray)
            ELSE HoldsDenseArray(o) /\ ReadsWhatWasWritten(o))
  /\ [][\A o \in PropIds :
          (NoBufferView(o) /\ ~props[o].initializedWithZeros) =>
            /\ ~props'[o].initializedWithZeros
            /\ props'[o].typedArray = props[o].typedArray]_vars

\* the same without what is read back: only the allocation
C12_AllocatesOnce ==
  /\ [](\A o \in PropIds :
          NoBufferView(o) =>
            IF Unwritten(o) THEN props[o].initializedWithZeros /\ ~defined(props[o].typedArray)
            ELSE HoldsDenseArray(o))
  /\ [][\A o \in PropIds :
          (NoBufferView(o) /\ ~props[o].initializedWithZeros) =>
            /\ ~props'[o].initializedWithZeros
            /\ props'[o].typedArray = props[o].typedArray]_vars

\* C13: setValue on an accessor property whose buffer was requested and has not
\* arrived changes nothing: no array is allocated, the property stays as it
\* was, and getValue keeps returning undefined
C13_PendingWriteIsDropped ==
  [][\A o \in PropIds, i \in FeatureIds :
       \A v \in ValuesOfShape(props[o].componentCount) :
         (Pending(o) /\ BinarySetValue(o, i, v)) =>
           /\ props' = props
           /\ buffers' = buffers
           /\ \A j \in FeatureIds : BinaryGetValue(props'[o], j) = Undefined]_vars

\* the byte fetch the property waited for has failed and the property was
\* handed the zero-length buffer
BoundToFailedFetch(o) ==
  /\ props[o].kind = "binary"
  /\ ContinuationRan(o)
  /\ \E c \in OwnerCalls(o) :
       /\ promises[calls[c].promise].state = "rejected"
       /\ calls[c].value = ZeroLengthBuffer

\* C14: after the byte fetch behind an accessor property has failed and the
\* continuation has run with the zero-length buffer, getValue returns undefined
\* for every feature id
C14_FailedFetchReadsUnavailable ==
  \A o \in PropIds :
    BoundToFailedFetch(o) =>
      \A i \in FeatureIds : BinaryGetValue(props[o], i) = Undefined

-----------------------------------------------------------------------------
(* Properties of the codec *)

\* n = 2^e
RECURSIVE IsPowerOfTwo(_, _)
IsPowerOfTwo(n, e) ==
  IF e = 0 THEN n = 1 ELSE n > 0 /\ n % 2 = 0 /\ IsPowerOfTwo(n \div 2, e - 1)

\* C15: an integer component type of w bytes has the maximum 2^(8w-1) - 1 and
\* the lowest value -2^(8w-1) when it is signed, and the maximum 2^(8w) - 1 and
\* the lowest value 0 when it is unsigned
C15_RawRanges ==
  (last.op = "range" /\ last.componentType \in IntegerTypes) =>
    LET w == getSizeInBytes(last.componentType) IN
      /\ last.maximumValue.den = 1 /\ last.lowestValue.den = 1
      /\ IF isSignedComponentType(last.componentType)
           THEN /\ IsPowerOfTwo(last.maximumValue.num + 1, 8 * w - 1)
                /\ IsPowerOfTwo(-last.lowestValue.num, 8 * w - 1)
           ELSE /\ IsPowerOfTwo(last.maximumValue.num + 1, 8 * w)
                /\ last.lowestValue.num = 0

\* x <= y for numbers that are not NaN
LessEq(x, y) == ~Less(y, x)

\* C16: decoding with normalization maps every raw value of an unsigned integer
\* type into [0, 1] and every raw value of a signed integer type into [-1, 1]
C16_DecodedRange ==
  (last.op = "decode" /\ last.normalized /\ last.componentType \in IntegerTypes) =>
    /\ last.value.type = "number" /\ ~IsNaN(last.value)
    /\ LessEq(last.value, Int2Num(1))
    /\ LessEq(IF isSignedComponentType(last.componentType) THEN Int2Num(-1) ELSE Int2Num(0),
              last.value)

\* |x - y| <= 1 / m for finite x, y and a positive integer m
WithinStep(x, y, m) ==
  /\ x.type = "number" /\ x.den > 0
  /\ y.type = "number" /\ y.den > 0
  /\ Abs(x.num * y.den - y.num * x.den) <= (x.den * y.den) \div m

\* C17: for a normalized integer type encoding inverts decoding on the raw
\* values from -max (signed) or 0 (unsigned) to max, and decoding the encoding
\* of a normalized value gives it back up to one step 1 / max
C17_EncodeInvertsDecode ==
  /\ (last.op = "decode" /\ last.normalized /\ last.componentType \in IntegerTypes
        /\ last.raw.num >= -TypeMax(last.componentType)) =>
       encodeValue(CodecProperty(last.componentType, TRUE), last.value) = last.raw
  /\ (last.op = "encode" /\ last.normalized /\ last.componentType \in IntegerTypes) =>
       WithinStep(decodeValue(CodecProperty(last.componentType, TRUE), last.raw),
                  last.value, TypeMax(last.componentType))

-----------------------------------------------------------------------------
(* Floating-point accessor properties *)

\* the numbers a value is made of
ComponentsOf(value) == IF value.type = "composite" THEN value.comps ELSE <<value>>

\* the slots of a feature in the array of the property
StoredComponents(o, featureId) ==
  [k \in 1 .. props[o].componentCount |->
     buffers[props[o].typedArray.ref]
            [props[o].typedArray.off + featureId * props[o].componentCount + k]]

\* C18: a floating-point accessor property is not normalized whatever the
\* normalized flag of its accessor: setValue stores the components as they are
\* supplied and getValue returns them as they are stored
C18_FloatIgnoresNormalization ==
  \A o \in PropIds :
    (props[o].kind = "binary" /\ props[o].componentType = "FLOAT") =>
      /\ ~props[o].normalized
      /\ \A v \in WriteNumbers :
           /\ decodeValue(props[o], v) = v
           /\ encodeValue(props[o], v) = v
      /\ \A i \in FeatureIds :
           defined(props[o].written[i]) =>
             /\ StoredComponents(o, i) = ComponentsOf(props[o].written[i])
             /\ BinaryGetValue(props[o], i) = props[o].written[i]

\* a float property whose accessor asks for normalization holds 1/2 as it was
\* written and reads it back, and so does one whose accessor does not
C18_Witness ==
  \E o1, o2 \in PropIds, i \in FeatureIds :
    /\ props[o1].kind = "binary" /\ props[o1].componentType = "FLOAT"
    /\ props[o1].gltf.accessor.normalized
    /\ props[o1].written[i] = Num(1, 2)
    /\ StoredComponents(o1, i) = <<Num(1, 2)>>
    /\ BinaryGetValue(props[o1], i) = Num(1, 2)
    /\ props[o2].kind = "binary" /\ props[o2].componentType = "FLOAT"
    /\ ~props[o2].gltf.accessor.normalized
    /\ props[o2].written[i] = Num(1, 2)
    /\ BinaryGetValue(props[o2], i) = Num(1, 2)

-----------------------------------------------------------------------------
(* Properties of the feature table *)

\* the id names no feature of a table that has a feature count
OutsideTable(featureId) ==
  /\ defined(table) /\ defined(table.featureCount)
  /\ (featureId < 0 \/ featureId >= table.featureCount.num)

LastFeature(featureId) ==
  /\ defined(table) /\ defined(table.featureCount)
  /\ featureId = table.featureCount.num - 1

OutOfRange == "DeveloperError: featureId"

\* C19: with the checks of the debug build, getPropertyValue, setPropertyValue
\* and getFeature raise the out-of-range error for every feature id outside
\* [0, featureCount), the id featureCount and the negative ids among them, and
\* do not raise it for the id featureCount - 1
C19_OutOfRangeIsRaised ==
  [][debug =>
       \A i \in CalledIds :
         /\ \A n \in CalledNames, r \in CalledResults :
              CallGetPropertyValue(i, n, r) =>
                /\ OutsideTable(i) => last'.threw = OutOfRange
                /\ LastFeature(i) => last'.threw # OutOfRange
         /\ \A n \in CalledNames, v \in CalledValues :
              CallSetPropertyValue(i, n, v) =>
                /\ OutsideTable(i) => last'.threw = OutOfRange
                /\ LastFeature(i) => last'.threw # OutOfRange
         /\ CallGetFeature(i) =>
              /\ OutsideTable(i) => last'.threw = OutOfRange
              /\ LastFeature(i) => last'.threw # OutOfRange]_vars

\* the id names a feature of the table and the name names none of its properties
ValidIdUnknownName(featureId, name) ==
  /\ defined(table) /\ defined(table.featureCount)
  /\ featureId >= 0 /\ featureId < table.featureCount.num
  /\ (name \notin Names \/ table.properties[name] = 0)

UnknownProperty == "DeveloperError: name"

\* C20: getPropertyValue and setPropertyValue called with a valid feature id
\* and a name that the table does not have throw the error for the unknown
\* property (with the checks of the debug build; without them the call fails
\* with a TypeError), and no property, array or buffer is changed
C20_UnknownPropertyIsRaised ==
  [][last'.op \in {"getPropertyValue", "setPropertyValue"} =>
     \A i \in CalledIds, n \in CalledNames :
       ValidIdUnknownName(i, n) =>
         /\ \A r \in CalledResults :
              CallGetPropertyValue(i, n, r) =>
                /\ last'.threw = IF debug THEN UnknownProperty ELSE "TypeError"
                /\ UNCHANGED <<props, arrays, buffers, table>>
         /\ \A v \in CalledValues :
              CallSetPropertyValue(i, n, v) =>
                /\ last'.threw = IF debug THEN UnknownProperty ELSE "TypeError"
                /\ UNCHANGED <<props, arrays, buffers, table>>]_vars

\* setPropertyValue has thrown the error for the unknown property on a table
\* whose properties hold written values
C20_Witness ==
  /\ debug
  /\ last = Threw("setPropertyValue", UnknownProperty)
  /\ \E o \in PropIds : ~Unwritten(o)

\* the id names a feature of the table
ValidId(featureId) ==
  /\ defined(table) /\ defined(table.featureCount)
  /\ featureId >= 0 /\ featureId < table.featureCount.num

\* the name is one of a property that holds vectors of two components, and the
\* object is a vector of another length
WrongVector(name, object) ==
  /\ defined(table) /\ name \in Names /\ table.properties[name] # 0
  /\ props[table.properties[name]].kind = "binary"
  /\ props[table.properties[name]].gltf.accessor.type = "VEC2"
  /\ defined(object) /\ object.type = "composite" /\ Len(object.comps) # 2

ShapeMismatch == "DeveloperError: result"

\* C21: with the checks of the debug build, getPropertyValue called with a
\* valid feature id, the name of a vector property and a result object of
\* another vector class throws the error for the result before the property is
\* asked: no value is returned, the result object holds what it held and no
\* property, array or buffer changes
C21_WrongResultIsRefused ==
  [][(debug /\ last'.op = "getPropertyValue") =>
     \A i \in CalledIds, n \in CalledNames, r \in CalledResults :
       (/\ ValidId(i) /\ WrongVector(n, r)
        /\ CallGetPropertyValue(i, n, r)) =>
         /\ last'.threw = ShapeMismatch
         /\ getPropertyValue(i, n, r).threw = ShapeMismatch
         /\ getPropertyValue(i, n, r).value = Undefined
         /\ getPropertyValue(i, n, r).result = r
         /\ UNCHANGED <<props, arrays, buffers, table>>]_vars

\* the error for the result has been thrown by a table whose vector property
\* had been written
C21_Witness ==
  /\ debug
  /\ last = Threw("getPropertyValue", ShapeMismatch)
  /\ \E n \in Names : /\ table.properties[n] # 0
                      /\ props[table.properties[n]].kind = "binary"
                      /\ ~Unwritten(table.properties[n])

\* the name is one of a property of the table and the value is not of the kind
\* the property is declared to hold: a vector of two components for the VEC2
\* accessor, a number for the scalar accessor and for the array of numbers
WrongValue(name, value) ==
  /\ defined(table) /\ name \in Names /\ table.properties[name] # 0
  /\ LET property == props[table.properties[name]]
     IN IF property.kind = "binary" /\ property.gltf.accessor.type = "VEC2"
          THEN ~(value.type = "composite" /\ Len(value.comps) = 2)
          ELSE value.type # "number"

ValueMismatch == "DeveloperError: value"

\* C22: with the checks of the debug build, setPropertyValue called with a
\* valid feature id, the name of a property and a value of another kind than
\* the property's type throws the error for the value; and whenever
\* setPropertyValue throws the error for the feature id, for the name or for
\* the value, no property (its flags and its typed array included), no array
\* and no buffer changes
C22_WrongValueIsRefused ==
  [][(debug /\ last'.op \in {"setPropertyValue", "setValue"}) =>
     \A i \in CalledIds, n \in CalledNames, v \in CalledValues :
       CallSetPropertyValue(i, n, v) =>
         /\ (ValidId(i) /\ WrongValue(n, v)) => last'.threw = ValueMismatch
         /\ last'.threw \in {OutOfRange, UnknownProperty, ValueMismatch} =>
              UNCHANGED <<props, arrays, buffers, table>>]_vars

\* the error for the value has been thrown on a property that reads zeros and
\* has no typed array, next to a property that had been written
C22_Witness ==
  /\ debug
  /\ last = Threw("setPropertyValue", ValueMismatch)
  /\ \E o \in PropIds : /\ props[o].kind = "binary" /\ props[o].initializedWithZeros
                        /\ ~defined(props[o].typedArray)
  /\ \E o \in PropIds : ~Unwritten(o)

\* the features of the table are made: one for each feature id, each bound to
\* the table and to its id, no two the same object
FeaturesAreMade(features) ==
  /\ defined(features) /\ Len(features.list) = table.featureCount.num
  /\ \A i \in 1 .. Len(features.list) :
       /\ features.list[i].type = "feature"
       /\ features.list[i].featureTable = "this"
       /\ features.list[i].featureId = i - 1
  /\ \A i, j \in 1 .. Len(features.list) :
       features.list[i].object = features.list[j].object => i = j

\* C23: getFeature with a feature id from 0 to featureCount - 1 returns the
\* feature bound to the table and to that id; the first call makes the
\* featureCount features, and every later call returns the object made then
C23_FeaturesAreMadeOnce ==
  [][/\ \A i \in CalledIds :
          (last'.op = "getFeature" /\ ValidId(i) /\ CallGetFeature(i)) =>
            /\ last'.threw = "none"
            /\ FeaturesAreMade(table'.features)
            /\ getFeature(i).value = table'.features.list[i + 1]
            /\ getFeature(i).value.featureId = i
            /\ IF defined(table.features)
                 THEN table' = table
                 ELSE table'.made = table.made + table.featureCount.num
     /\ (defined(table) /\ defined(table.features)) =>
          (table'.features = table.features /\ table'.made = table.made)]_vars

\* the features have been made and getFeature has returned since, with
\* properties written in between
C23_Witness ==
  /\ defined(table) /\ defined(table.features) /\ defined(table.featureCount)
  /\ table.made = table.featureCount.num
  /\ last = Returned("getFeature")
  /\ \E o \in PropIds : ~Unwritten(o)

-----------------------------------------------------------------------------
(* Properties of the array property over arrays of arrays *)

\* what a value is made of: the elements of an array, and theirs
RECURSIVE Deep(_, _)
Deep(heap, value) ==
  IF value.type # "array" THEN value
  ELSE [type |-> "array",
        elements |-> [j \in 1 .. Len(heap[value.ref]) |-> Deep(heap, heap[value.ref][j])]]

\* the arrays a value is made of
RECURSIVE Inside(_, _)
Inside(heap, value) ==
  IF value.type # "array" THEN {}
  ELSE {value.ref} \cup UNION {Inside(heap, heap[value.ref][j]) : j \in 1 .. Len(heap[value.ref])}

\* what getValue(featureId) of a property is made of
Reads(heap, properties, o, featureId) ==
  IF ~defined(properties[o].values) THEN Undefined
  ELSE Deep(heap, heap[properties[o].values.ref][featureId + 1])

\* no array of a property is an array a caller holds or can reach
NothingShared ==
  \A o \in PropIds : \A h \in held :
    Inside(arrays, props[o].values) \cap Inside(arrays, ArrayRef(h)) = {}

\* C24: the arrays an array property stores are not the arrays of the glTF, of
\* a value getValue returned or of a value handed to setValue, nor parts of
\* them: the construction stores what the glTF's array held, setValue what the
\* value held, and an assignment by a caller to an array it holds changes
\* nothing of what getValue returns
C24_StoredValuesAreCopies ==
  /\ [](NothingShared)
  /\ [][/\ NewInlineProperty(SchemaValues) =>
            \A i \in FeatureIds :
              Reads(arrays', props', Len(props'), i) = Deep(arrays, arrays[SchemaValues.ref][i + 1])
        /\ \A o \in PropIds, i \in FeatureIds, v \in HeldArrays :
             ArraySetValue(o, i, v) => Reads(arrays', props', o, i) = Deep(arrays, v)
        /\ (\E r \in held, v \in CallerNumbers : CallerStores(r, 1, v)) =>
             \A o \in PropIds, i \in FeatureIds :
               Reads(arrays', props', o, i) = Reads(arrays, props, o, i)]_vars

\* the caller has assigned to the array of the glTF that it had handed to
\* setValue and to an array getValue had returned, and the property reads what
\* was handed to it
C24_Witness ==
  /\ last = [op |-> "caller stores"]
  /\ arrays[1] = <<Int2Num(99)>>
  /\ \E h \in held : h > 2 * (FeatureCount + 1) /\ arrays[h] = <<Int2Num(99)>>
  /\ \E o \in PropIds :
       /\ props[o].written[1] = ArrayRef(1)
       /\ Reads(arrays, props, o, 1) = [type |-> "array", elements |-> <<Int2Num(41)>>]
       /\ Reads(arrays, props, o, 0) = [type |-> "array", elements |-> <<Int2Num(41)>>]

-----------------------------------------------------------------------------
(* Properties of the constructions over a cache that holds the file *)

\* C25: when the cache holds the resolved document of a URI, the construction
\* of a further array property over an array of that URI starts no fetch, ends
\* without an exception and gives a property
C25_CacheHitConstructs ==
  [][\A k \in Keys :
       (/\ CacheHit(jsonCache[ArrayUri])
        /\ NewArrayProperty(ExternalArray(ArrayUri, k))) =>
         /\ promises' = promises
         /\ last'.threw = "none"
         /\ Len(props') = Len(props) + 1]_vars

\* the buffer of the accessor has a uri and no bytes at hand
External(gltf) ==
  /\ defined(getBuffer(gltf, gltf.accessor))
  /\ ~defined(getBufferSource(gltf, gltf.accessor))

\* C26: the construction of an accessor property over a buffer that is neither
\* embedded nor resident asks the cache for the buffer under the buffer's own
\* URI and returns a property; until the request is answered the property has
\* no typed array, and the answer binds a typed array over the bytes delivered
C26_ExternalBufferIsRequested ==
  [][/\ \A gltf \in Gltfs :
          (External(gltf) /\ ~CacheHit(bufferCache[gltf.buffer.uri.s])
           /\ NewBinaryProperty(gltf)) =>
            /\ last'.threw = "none"
            /\ Len(calls') = Len(calls) + 1
            /\ calls'[Len(calls')].op = "buffer"
            /\ calls'[Len(calls')].uri = gltf.buffer.uri.s
            /\ ~defined(props'[Len(props')].typedArray)
     /\ BinaryContinuation =>
          /\ defined(props'[HeadOwner].typedArray)
          /\ props'[HeadOwner].typedArray.ref = calls[HeadCall].value.ref]_vars

\* two accessor properties made over the same accessor of the same resident
\* buffer: their views are over the same bytes
SameBytes(o1, o2) ==
  /\ o1 # o2
  /\ props[o1].kind = "binary" /\ props[o2].kind = "binary"
  /\ props[o1].gltf = props[o2].gltf
  /\ defined(getBufferSource(props[o1].gltf, props[o1].gltf.accessor))

\* C27: two accessor properties bound to views over the same bytes stay bound
\* to the same bytes when one of them is written, so that each reads for every
\* feature what the other reads
C27_WritesAreShared ==
  \A o1, o2 \in PropIds :
    SameBytes(o1, o2) =>
      /\ props[o1].typedArray.ref = props[o2].typedArray.ref
      /\ \A i \in FeatureIds :
           BinaryGetValue(props[o1], i) = BinaryGetValue(props[o2], i)

-----------------------------------------------------------------------------
(* Properties of the table's set of properties *)

\* the variant bound to a name: none for a name the table does not have
Variant(state, properties, name) ==
  IF state.properties[name] = 0 THEN "none" ELSE properties[state.properties[name]].kind

\* C28: once the table is constructed, no call of getFeature, getPropertyValue
\* or setPropertyValue and no completion of a fetch changes the names the table
\* has, the property a name is bound to or the variant of that property
C28_PropertiesAreFixed ==
  [][defined(table) =>
       /\ defined(table')
       /\ table'.properties = table.properties
       /\ Len(props') = Len(props)
       /\ \A n \in Names : Variant(table', props', n) = Variant(table, props, n)]_vars

\* the fetch behind a property has been completed and delivered to it, the
\* property has been written since, and the features have been made
C28_Witness ==
  /\ defined(table) /\ defined(table.features)
  /\ \E o \in PropIds : /\ props[o].kind = "array" /\ ContinuationRan(o)
                        /\ ~Unwritten(o)

\* the variant the storage parameters of a property ask for: an accessor asks
\* for the binary property, an array for the array property, and a descriptor
\* with neither of them for the descriptor property
VariantFor(property) ==
  IF defined(property.accessor) THEN "binary"
  ELSE IF defined(property.array) THEN "array"
  ELSE "descriptor"

\* C29: the construction of the table binds every property the feature table
\* declares to the variant its storage parameters ask for
C29_VariantFollowsStorage ==
  [][\A featureTable \in VariantTables :
       NewTable(featureTable) =>
         \A n \in Names :
           defined(featureTable.featureProperties[n]) =>
             Variant(table', props', n) = VariantFor(featureTable.featureProperties[n])]_vars

-----------------------------------------------------------------------------
(* Properties of the feature *)

\* C30: getProperty of a feature returns what getPropertyValue of its table
\* returns for the feature's id, the name and the result object, throws what it
\* throws and leaves in the result object what it leaves; the call changes
\* neither the feature nor the table nor any property
C30_GetPropertyDelegates ==
  /\ [](\A f \in Features, n \in CalledNames, r \in CalledResults :
          (/\ defined(table) /\ defined(table.features)
           /\ \E k \in 1 .. Len(table.features.list) : table.features.list[k] = f) =>
            LET returned == getProperty(f, n, r)
                delegated == getPropertyValue(f.featureId, n, r)
            IN /\ returned.threw = delegated.threw
               /\ returned.value = delegated.value
               /\ returned.result = delegated.result)
  /\ [][last'.op = "getProperty" =>
         /\ \E f \in Features, n \in CalledNames, r \in CalledResults :
              /\ CallGetProperty(f, n, r)
              /\ last'.threw = getPropertyValue(f.featureId, n, r).threw
         /\ UNCHANGED <<table, props, arrays, buffers>>]_vars

\* getProperty has returned on a table with a written vector property
C30_Witness ==
  /\ last.op = "getProperty" /\ last.threw = "none"
  /\ \E o \in PropIds : props[o].kind = "binary" /\ props[o].componentCount = 2
                        /\ ~Unwritten(o)

-----------------------------------------------------------------------------
(* Properties of the writes of vectors *)

\* the property is normalized, of an integer component type and holds vectors
NormalizedVector(o) ==
  /\ props[o].kind = "binary"
  /\ props[o].normalized
  /\ props[o].componentCount > 1

\* x and y are numbers no further apart than 1 / step
WithinOneStep(x, y, step) ==
  /\ x.type = "number" /\ y.type = "number" /\ x.den # 0 /\ y.den # 0
  /\ Abs(x.num * y.den - y.num * x.den) * step.num <= x.den * y.den * step.den

\* C31: setValue of a vector on a normalized integer property stores in each
\* raw slot of the feature round(c * maximum) for the component c it is given,
\* the raw value the scalar path stores for c, and getValue then returns each
\* component within one step of what was written
C31_VectorEncodesAsScalar ==
  [][last'.op = "setValue" =>
     \A o \in PropIds, i \in FeatureIds, v \in WriteVectors :
       (/\ NormalizedVector(o)
        /\ BinarySetValue(o, i, v)
        /\ defined(props'[o].typedArray)) =>
         LET returned == BinaryGetValue(props[o], i)' IN
           \A k \in 1 .. props[o].componentCount :
             /\ HeapGet(buffers', props'[o].typedArray, i * props[o].componentCount + k - 1)
                  = StoreAs(props[o].componentType, encodeValue(props[o], v.comps[k]))
             /\ WithinOneStep(returned.comps[k], v.comps[k], props[o].maximumValue)]_vars

-----------------------------------------------------------------------------
(* Progress of the cache *)

\* C32: when every fetch the cache started is settled at some time, every call
\* that was returned a promise has its promise fulfilled at some time, and every
\* in-flight entry is removed at some time and a resolved entry is then there
\* for its URI
C32_RequestsSettle ==
  /\ \A c \in 1 .. MaxCalls :
       (c <= Len(calls) /\ calls[c].state = "pending")
         ~> (c <= Len(calls) /\ calls[c].state = "fulfilled")
  /\ \A u \in ResolvedUris :
       defined(promiseCache[u])
         ~> (/\ ~defined(promiseCache[u])
             /\ defined(jsonCache[u]) \/ defined(bufferCache[u]))

\* two calls waited for one fetch, which failed: both were fulfilled, the
\* in-flight entry is gone and the resolved entry is there
C32_Witness ==
  \E c1, c2 \in 1 .. Len(calls) :
    /\ c1 # c2 /\ Registered(c1) /\ calls[c1].promise = calls[c2].promise
    /\ promises[calls[c1].promise].state = "rejected"
    /\ calls[c1].state = "fulfilled" /\ calls[c2].state = "fulfilled"
    /\ ~defined(promiseCache[calls[c1].uri])
    /\ defined(bufferCache[calls[c1].uri])

-----------------------------------------------------------------------------
(* Properties of a table without a feature count *)

\* the table was constructed without a feature count
NoFeatureCount == defined(table) /\ ~defined(table.featureCount)

\* C33: with the checks of the debug build, on a table whose featureCount is
\* undefined getFeature, getPropertyValue and setPropertyValue throw the error
\* for the feature id whatever the id: no value is returned, no feature is made
\* and no property, array or buffer changes
C33_NoCountRefusesEveryId ==
  /\ []((debug /\ NoFeatureCount) =>
          /\ ~defined(table.features) /\ table.made = 0
          /\ \A i \in CalledIds :
               /\ getFeature(i).threw = OutOfRange
               /\ getFeature(i).value = Undefined
               /\ \A n \in CalledNames :
                    /\ \A r \in CalledResults :
                         /\ getPropertyValue(i, n, r).threw = OutOfRange
                         /\ getPropertyValue(i, n, r).value = Undefined
                         /\ getPropertyValue(i, n, r).result = r
                    /\ \A v \in CalledValues :
                         setPropertyValueThrows(i, n, v) = OutOfRange)
  /\ [][(debug /\ NoFeatureCount) =>
          /\ last'.threw = OutOfRange
          /\ UNCHANGED <<table, props, arrays, buffers>>]_vars

\* setPropertyValue has thrown on a table without a count that has two
\* properties, and no feature was made
C33_Witness ==
  /\ debug /\ NoFeatureCount
  /\ Len(props) = 2
  /\ last = Threw("setPropertyValue", OutOfRange)
  /\ ~defined(table.features)

-----------------------------------------------------------------------------
(* Properties of requests of both kinds for one URI *)

\* C34: a promise returned by getExternalBuffer is fed by a byte fetch and is
\* fulfilled with a Uint8Array, never with undefined and never with a JSON
\* document; a promise returned by getExternalValues is fed by a JSON fetch
C34_KindsAreKeptApart ==
  \A c \in 1 .. Len(calls) :
    Registered(c) =>
      /\ calls[c].op = "buffer" =>
           /\ promises[calls[c].promise].kind = "bytes"
           /\ calls[c].state = "fulfilled" => calls[c].value.type = "uint8array"
      /\ calls[c].op = "values" => promises[calls[c].promise].kind = "json"

-----------------------------------------------------------------------------
(* Properties of the frame of a write through an accessor property *)

\* the property has a typed array over the bytes of its buffer
BoundToBuffer(o) ==
  /\ props[o].kind = "binary"
  /\ defined(props[o].gltf.accessor.bufferView)
  /\ defined(props[o].typedArray)

\* C35: setValue(i, v) on an accessor property bound to a buffer changes only
\* the raw slots from i * componentCount to (i + 1) * componentCount - 1: every
\* other slot of the property holds what it held, and getValue(j) returns for
\* every other feature j what it returned before, the first write included
C35_WriteTouchesOwnSlots ==
  [][last'.op = "setValue" =>
     \A o \in PropIds, i \in FeatureIds :
       \A v \in ValuesOfShape(props[o].componentCount) :
         (BoundToBuffer(o) /\ BinarySetValue(o, i, v)) =>
           /\ \A index \in 0 .. (props[o].componentCount * props[o].count - 1) :
                (index < i * props[o].componentCount
                   \/ index >= (i + 1) * props[o].componentCount) =>
                  HeapGet(buffers', props'[o].typedArray, index)
                    = HeapGet(buffers, props[o].typedArray, index)
           /\ \A j \in FeatureIds \ {i} :
                BinaryGetValue(props[o], j)' = BinaryGetValue(props[o], j)]_vars

\* a setValue on the feature has stored its value in the property's typed array
TookEffect(o, i) == props[o].kind = "binary" /\ defined(props[o].written[i])

\* C36: a write through an accessor property that took effect is durable: in
\* every step that is not a setValue on the same feature of the property,
\* the arrival of the property's buffer included, getValue of the feature
\* returns after the step what it returned before it
C36_WritesAreDurable ==
  [][\A o \in PropIds, i \in FeatureIds :
       (TookEffect(o, i) /\ props'[o].written[i] = props[o].written[i]) =>
         BinaryGetValue(props[o], i)' = BinaryGetValue(props[o], i)]_vars

-----------------------------------------------------------------------------
(* Properties of the frame of a write through an array property *)

\* the array property has its array of values
Available(o) == props[o].kind = "array" /\ defined(props[o].values)

\* C37: setValue(i, v) on an array property that has its values makes
\* getValue(i) return v and leaves what getValue returns for every other
\* feature of the property, and for every feature of every other property, as
\* it was, the write that copies an array of the cache included; and until the
\* next setValue on i no step changes what getValue(i) returns
C37_ArrayWriteIsFramed ==
  [][/\ last'.op = "setValue" =>
          \A o \in PropIds, i \in FeatureIds, v \in WriteValues :
            (Available(o) /\ ArraySetValue(o, i, v)) =>
              /\ ArrayGetValue(props[o], i)' = v
              /\ \A o2 \in PropIds, j \in FeatureIds :
                   (props[o2].kind = "array" /\ (o2 # o \/ j # i)) =>
                     ArrayGetValue(props[o2], j)' = ArrayGetValue(props[o2], j)
     /\ \A o \in PropIds, i \in FeatureIds :
          (/\ Available(o) /\ defined(props[o].written[i])
           /\ props'[o].written[i] = props[o].written[i]) =>
            ArrayGetValue(props[o], i)' = props[o].written[i]]_vars

\* a property has written to its copy of the array of the cache, and another
\* property of the same file and key still reads the array of the cache
C37_Witness ==
  /\ last = Returned("setValue")
  /\ \E o1, o2 \in PropIds :
       /\ Available(o1) /\ Available(o2)
       /\ props[o1].external /\ props[o2].external
       /\ ~props[o1].fromCache /\ props[o2].fromCache
       /\ props[o1].values # props[o2].values
       /\ \E i \in FeatureIds :
            /\ props[o1].written[i] = Int2Num(7)
            /\ ArrayGetValue(props[o1], i) = Int2Num(7)
            /\ ArrayGetValue(props[o2], i) # Int2Num(7)
            /\ \A j \in FeatureIds \ {i} :
                 ArrayGetValue(props[o1], j) = ArrayGetValue(props[o2], j)

-----------------------------------------------------------------------------
(* GltfFeatureMetadata *)

MaxTables == 2

\* new GltfFeatureTable({gltf, featureTable, cache}) in the callback: the table
\* and the properties it constructs (GltfFeatureTable.js lines 31-78)
ConstructedTable(featureTable, built) ==
  LET made == BuildProperties(featureTable.featureProperties, 1,
                [props |-> built.props, arrays |-> built.arrays,
                 properties |-> [n \in Names |-> 0]])
  IN [props |-> made.props, arrays |-> made.arrays,
      tables |-> Append(built.tables,
                        [type |-> "object", features |-> Undefined, made |-> 0,
                         properties |-> made.properties,
                         featureCount |-> featureTable.featureCount])]

\* the callback is called for the elements of featureMetadata.featureTables in
\* their order (lines 31-37)
RECURSIVE ConstructTables(_, _, _)
ConstructTables(featureTables, k, built) ==
  IF k > Len(featureTables) THEN built
  ELSE ConstructTables(featureTables, k + 1, ConstructedTable(featureTables[k], built))

\* an array of JavaScript objects
JsArray(list) == [type |-> "array", list |-> list]

\* Array.prototype.forEach calls the callback for every element and returns
\* undefined, whatever the callback returns
forEach(returned) == Undefined

\* lines 18-40: this._featureTables is what forEach returned
NewGltfFeatureMetadata(featureTables) ==
  LET built == ConstructTables(featureTables, 1,
                               [props |-> props, arrays |-> arrays, tables |-> <<>>])
  IN /\ jobs = <<>>
     /\ last = NoOp
     /\ props' = built.props
     /\ arrays' = built.arrays
     /\ last' = [op |-> "new GltfFeatureMetadata", threw |-> "none",
                 featureMetadata |-> featureTables,
                 constructed |-> built.tables,
                 value |-> [type |-> "object",
                            featureTables |-> forEach(JsArray(built.tables))]]
     /\ UNCHANGED <<held, table, debug, jsonCache, bufferCache, promiseCache, promises, calls,
                    jobs, buffers>>

\* feature metadata that lists up to MaxTables feature tables
MetadataNext ==
  \E n \in 0 .. MaxTables :
    \E featureTables \in [1 .. n -> FeatureTables] : NewGltfFeatureMetadata(featureTables)

SpecMetadata == Init /\ [][MetadataNext]_vars

\* C38: the GltfFeatureMetadata constructed from feature metadata that lists n
\* feature tables holds n tables, the k-th of them constructed from the k-th
\* listed table: with its feature count and with a property for each name it
\* declares (there is the one cache, which every construction is handed)
C38_HoldsOneTablePerListed ==
  last.op = "new GltfFeatureMetadata" =>
    LET listed == last.featureMetadata
        tables == last.value.featureTables
    IN /\ defined(tables)
       /\ Len(tables.list) = Len(listed)
       /\ \A k \in 1 .. Len(listed) :
            /\ tables.list[k] = last.constructed[k]
            /\ tables.list[k].featureCount = listed[k].featureCount
            /\ \A name \in Names :
                 tables.list[k].properties[name] # 0
                   <=> defined(listed[k].featureProperties[name])

====
